---- MODULE Spec2Model ----
(***************************************************************************)
(* Model of the document reconciliation protocol of the note editor        *)
(* (src/app/notes/[id]/NoteClient.tsx): dirty/saved version counters,      *)
(* debounced content and title saves, store writes and remote snapshots.   *)
(***************************************************************************)
EXTENDS Integers, FiniteSets, Sequences, TLC

\* ---------------------------------------------------------------- bounds
MaxEdits == 2          \* local edits (body or title) in a run
MaxInflight == 2       \* store writes awaiting their completion
MaxContent == 1        \* document bodies are 0..MaxContent (0 = empty doc)
MaxSwitches == 1       \* route changes to another note
MaxQuery == 2          \* characters typed after the slash-menu trigger
MaxRelevance == 5      \* highest relevance a grammar scores on a snippet
MaxRestore == 3        \* characters of the bodies a selection is restored in

Notes == {"A", "B"}
Contents == 0..MaxContent
Titles == {0, 1}        \* two distinguishable titles (0 = empty title)

VARIABLES
  noteId,                 \* route parameter: the open document
  ready,                  \* setReady(true) after the first snapshot ever
  syncStatus,             \* 'loading' | 'syncing' | 'synced' | 'error'
  title,                  \* local title state
  isDeleted,              \* local isDeleted state
  sidebarMode,            \* 'notes' | 'trash'
  hasHydratedContent,     \* hasHydratedContentRef.current
  lastSubmittedContent,   \* lastSubmittedContentRef.current ({} = null)
  changeVersion,          \* changeVersionRef.current
  savedVersion,           \* savedVersionRef.current
  contentSaveTimeoutRef,  \* "null" or "handle": the last content timer's handle
  titleSaveTimeoutRef,    \* "null" or "handle": the last title timer's handle
  contentTimers,          \* armed content timers; held = the ref has its handle
  titleTimers,            \* armed title timers; held = the ref has its handle
  inflight,               \* updateDoc calls awaiting resolution
  editorContent,          \* editor.getJSON()
  selection,              \* editor.state.selection as <<from, to>>
  isFocused,              \* editor.isFocused
  store,                  \* the remote documents, by note id
  unsavedContent,         \* history: last local content edit not yet stored
  unsavedTitle,           \* history: last local title edit not yet stored
  switches,               \* history: route changes so far
  edits,                  \* history: local edits so far
  missing,                \* store: ids whose document does not exist (any more)
  listening,              \* the onSnapshot subscription has not failed
  recovering              \* recoveringNoteRef.current

\* slash command menu (lib/editor/suggestion.ts, CommandMenu.tsx)
VARIABLES
  variant,                \* "tulis": components/editor/CommandMenu.tsx;
                          \* "klaudpad": klaudpad/.../CommandMenu.tsx
  suggestionActive,       \* the suggestion plugin has a trigger range
  popupVisible,           \* the tippy popup is shown
  query,                  \* the text typed after the trigger character
  items,                  \* props.items: indices into the static list
  selectedIndex,          \* CommandMenu state
  keyHandled,             \* what render().onKeyDown returned for the last key
  committed,              \* history: the command run since the menu opened
  escaped                 \* history: Escape was pressed since it opened

\* abbreviation expansion (AbbrevExpand)
VARIABLES
  doc,                    \* editor.state.doc as its tokens
  cursor,                 \* state.selection.from (the selection is a caret)
  abbrevKey               \* outcome of the trigger key: "none" before it

\* tag chips (editor/TagChip.ts)
VARIABLES
  tagDoc,                 \* editor.state.doc as its tokens
  tagSel,                 \* editor.state.selection as <<from, to>>
  tagOp,                  \* what was done to the document: "none" before it
  tagChip,                \* a chip node: its color attribute and its text
  tagWire,                \* the chip written out, with the format
  tagBack                 \* the chip read back: <<>> before that

\* a code block's node view (CodeBlockNodeView, lib/editor/codeFormat.ts)
VARIABLES
  blockCode,              \* node.textContent
  blockLanguage,          \* node.attrs.language: <<>> when it is not set
  relevances,             \* the relevance each grammar scores on the text
  relabelAggressiveRef,   \* set by an input or a paste in the block
  detectionMemo,          \* detection: the memoised detectCodeLanguageMeta(code)
  effectPending,          \* the relabel effect has a changed dependency
  relabel,                \* shouldAutoCorrectLanguage's last call and answer
  formatStatus,           \* "idle", "working", "success" or "error"
  formatResult            \* <<formatCodeSnippet's last result>>, or <<>>

\* the "ensure the user has a note" service (ensureUserHasNote) for one user
VARIABLES
  notesCollection,        \* the notes documents, newest updatedAt first
  ensureInFlight,         \* ensureInFlight.get(userId): the caller whose
                          \* ensurePromise is the entry, or "none"
  ensurePromise,          \* each caller's ensurePromise and how it settled
  ensureCalls,            \* each call: its options and where it stands
  overlapping             \* history: the pairs of calls that ran at once

noteVars == <<noteId, ready, syncStatus, title, isDeleted, sidebarMode,
          hasHydratedContent, lastSubmittedContent, changeVersion,
          savedVersion, contentSaveTimeoutRef, titleSaveTimeoutRef,
          contentTimers, titleTimers, inflight, editorContent, selection,
          isFocused, store, unsavedContent, unsavedTitle, switches, edits>>

recoveryVars == <<missing, listening, recovering>>

menuVars == <<variant, suggestionActive, popupVisible, query, items,
              selectedIndex, keyHandled, committed, escaped>>

abbrevVars == <<doc, cursor, abbrevKey>>

tagVars == <<tagDoc, tagSel, tagOp, tagChip, tagWire, tagBack>>

\* state of the editor extensions (none of it is touched by the note client)
codeVars == <<blockCode, blockLanguage, relevances, relabelAggressiveRef,
              detectionMemo, effectPending, relabel, formatStatus, formatResult>>

\* the trash and its cleanup (cleanupExpiredTrashNotes)
VARIABLES
  trashDocs,                \* the user's notes: exists, isDeleted, deletedAt
  now,                      \* Date.now(), in days
  trashCleanupRunningRef,
  cleanups                  \* each invocation of the cleanup: where it stands

trashVars == <<trashDocs, now, trashCleanupRunningRef, cleanups>>

\* the header actions menu and the document it acts on
VARIABLES
  taskDoc,                  \* editor.getJSON(): the document as a node tree
  isHeaderActionsMenuOpen

clearVars == <<taskDoc, isHeaderActionsMenuOpen>>

ensureVars == <<notesCollection, ensureInFlight, ensurePromise, ensureCalls,
                overlapping>>

\* state of the services of the app around the note client
appVars == <<ensureVars, clearVars, trashVars>>

extensionVars == <<menuVars, abbrevVars, tagVars, codeVars, appVars>>

vars == <<noteVars, recoveryVars, extensionVars>>

\* ------------------------------------------------------------ pure parts

\* const isReadOnly = isDeleted || sidebarMode === 'trash'
IsReadOnly(deleted, mode) == deleted \/ mode = "trash"

isReadOnly == IsReadOnly(isDeleted, sidebarMode)

\* isEquivalentEditorContent(a, b): deep structural equality
isEquivalentEditorContent(a, b) == a = b

\* editor.state.doc.content.size of a body: the empty document is one empty
\* paragraph (size 2), a body c holds c characters more
DocSize(c) == 2 + c

\* cursor positions inside the text block of a body
CursorPositions(c) == 1..(DocSize(c) - 1)

\* the caret after the last character: where typing and an unfocused
\* setContent leave the selection ("jumping to the end")
EndOfDoc(c) == <<DocSize(c) - 1, DocSize(c) - 1>>

\* markDirty: the incremented changeVersion
markDirty(cv) == cv + 1

\* a markSaved that stores the version of the write without comparing
markSavedVersionLast(version, sv) == version

\* markSaved: savedVersionRef after the conditional raise
markSavedVersion(version, sv) == IF version > sv THEN version ELSE sv

\* markSaved: the status derived from the counters afterwards
markSavedStatus(sv, cv) == IF sv >= cv THEN "synced" ELSE "syncing"

\* a schedule that forgets to cancel the timer of the ref
clearTimeoutMissing(timers, ref) == timers

\* if (ref.current) clearTimeout(ref.current): the armed timers that remain
\* (a handle whose timer has fired cancels nothing)
clearTimeout(timers, ref) ==
  IF ref = "null" THEN timers ELSE {t \in timers : ~t.held}

\* onSnapshot: isExpectedLocalContentEcho
isExpectedLocalContentEcho(isInitialHydration, newContent, lastSubmitted) ==
  /\ ~isInitialHydration
  /\ \E l \in lastSubmitted : isEquivalentEditorContent(newContent, l)

\* a snapshot handler that does not look at the version counters
shouldApplyRemoteContentAlways(isInitialHydration, cv, sv) == TRUE

\* onSnapshot: shouldApplyRemoteContent
shouldApplyRemoteContent(isInitialHydration, cv, sv) ==
  isInitialHydration \/ ~(cv > sv)

\* NotePage variant of onSnapshot: the condition guarding setContent
\* (JSON.stringify(newContent) !== JSON.stringify(currentContent))
AppliesRemoteContentPage(newContent, current, hydrated, cv, sv) ==
  /\ shouldApplyRemoteContent(~hydrated, cv, sv)
  /\ newContent # current

\* onSnapshot: the condition guarding setContent
AppliesRemoteContent(newContent, current, hydrated, lastSubmitted, cv, sv) ==
  /\ ~isEquivalentEditorContent(newContent, current)
  /\ ~isExpectedLocalContentEcho(~hydrated, newContent, lastSubmitted)
  /\ shouldApplyRemoteContent(~hydrated, cv, sv)

ClampPosNoUpper(pos, maxPos) == IF pos > 1 THEN pos ELSE 1

\* Math.max(minPos, Math.min(pos, maxPos)) with minPos = 1
ClampPos(pos, maxPos) ==
  LET lo == IF pos < maxPos THEN pos ELSE maxPos
  IN IF lo > 1 THEN lo ELSE 1

\* what a snapshot of note n can carry for a field: the stored value or the
\* payload of one of this client's writes that is still in flight
VisibleContents(n) ==
  {store[n].content} \cup
  {w.payload : w \in {x \in inflight : x.field = "content" /\ x.noteId = n}}

VisibleTitles(n) ==
  {store[n].title} \cup
  {w.payload : w \in {x \in inflight : x.field = "title" /\ x.noteId = n}}

\* ------------------------------------------------- slash command menu

\* SlashCommand: the static command list (title and aliases of each item)
SlashItems == <<
  [title |-> <<"T", "e", "x", "t">>,
   aliases |-> <<
     <<"p">>,
     <<"p", "a", "r", "a", "g", "r", "a", "p", "h">>
   >>],
  [title |-> <<"H", "e", "a", "d", "i", "n", "g", " ", "1">>,
   aliases |-> <<
     <<"h", "1">>,
     <<"b", "i", "g">>,
     <<"l", "a", "r", "g", "e">>
   >>],
  [title |-> <<"H", "e", "a", "d", "i", "n", "g", " ", "2">>,
   aliases |-> <<
     <<"h", "2">>,
     <<"m", "e", "d", "i", "u", "m">>
   >>],
  [title |-> <<"H", "e", "a", "d", "i", "n", "g", " ", "3">>,
   aliases |-> <<
     <<"h", "3">>,
     <<"s", "m", "a", "l", "l">>
   >>],
  [title |-> <<"B", "u", "l", "l", "e", "t", " ", "L", "i", "s", "t">>,
   aliases |-> <<
     <<"u", "l">>,
     <<"b", "u", "l", "l", "e", "t", "s">>,
     <<"l", "i", "s", "t">>
   >>],
  [title |-> <<"N", "u", "m", "b", "e", "r", "e", "d", " ", "L", "i", "s", "t">>,
   aliases |-> <<
     <<"o", "l">>,
     <<"n", "u", "m", "b", "e", "r", "s">>,
     <<"1">>,
     <<"l", "i", "s", "t">>
   >>],
  [title |-> <<"T", "a", "s", "k", " ", "L", "i", "s", "t">>,
   aliases |-> <<
     <<"t", "o", "d", "o">>,
     <<"c", "h", "e", "c", "k">>,
     <<"t", "a", "s", "k">>
   >>],
  [title |-> <<"T", "a", "g">>,
   aliases |-> <<
     <<"t", "a", "g">>,
     <<"c", "h", "i", "p">>,
     <<"l", "a", "b", "e", "l">>
   >>],
  [title |-> <<"T", "a", "g", " ", "B", "l", "u", "e">>,
   aliases |-> <<
     <<"t", "a", "g", "-", "b", "l", "u", "e">>,
     <<"b", "l", "u", "e", "-", "t", "a", "g">>,
     <<"t", "a", "g", "b", "l", "u", "e">>
   >>],
  [title |-> <<"T", "a", "g", " ", "G", "r", "e", "e", "n">>,
   aliases |-> <<
     <<"t", "a", "g", "-", "g", "r", "e", "e", "n">>,
     <<"g", "r", "e", "e", "n", "-", "t", "a", "g">>,
     <<"t", "a", "g", "g", "r", "e", "e", "n">>
   >>],
  [title |-> <<"T", "a", "g", " ", "Y", "e", "l", "l", "o", "w">>,
   aliases |-> <<
     <<"t", "a", "g", "-", "y", "e", "l", "l", "o", "w">>,
     <<"y", "e", "l", "l", "o", "w", "-", "t", "a", "g">>,
     <<"t", "a", "g", "y", "e", "l", "l", "o", "w">>
   >>],
  [title |-> <<"T", "a", "g", " ", "R", "e", "d">>,
   aliases |-> <<
     <<"t", "a", "g", "-", "r", "e", "d">>,
     <<"r", "e", "d", "-", "t", "a", "g">>,
     <<"t", "a", "g", "r", "e", "d">>
   >>],
  [title |-> <<"T", "a", "g", " ", "P", "u", "r", "p", "l", "e">>,
   aliases |-> <<
     <<"t", "a", "g", "-", "p", "u", "r", "p", "l", "e">>,
     <<"p", "u", "r", "p", "l", "e", "-", "t", "a", "g">>,
     <<"t", "a", "g", "p", "u", "r", "p", "l", "e">>
   >>],
  [title |-> <<"Q", "u", "o", "t", "e">>,
   aliases |-> <<
     <<"b", "l", "o", "c", "k", "q", "u", "o", "t", "e">>,
     <<"q", "u", "o", "t", "e">>
   >>],
  [title |-> <<"C", "o", "d", "e", " ", "B", "l", "o", "c", "k">>,
   aliases |-> <<
     <<"c", "o", "d", "e">>,
     <<"p", "r", "e">>,
     <<"s", "n", "i", "p", "p", "e", "t">>
   >>],
  [title |-> <<"D", "i", "v", "i", "d", "e", "r">>,
   aliases |-> <<
     <<"h", "r">>,
     <<"l", "i", "n", "e">>,
     <<"d", "i", "v", "i", "d", "e", "r">>,
     <<"s", "e", "p", "a", "r", "a", "t", "o", "r">>
   >>],
  [title |-> <<"D", "a", "t", "e">>,
   aliases |-> <<
     <<"d", "a", "t", "e">>,
     <<"c", "a", "l", "e", "n", "d", "a", "r">>
   >>],
  [title |-> <<"T", "o", "d", "a", "y">>,
   aliases |-> <<
     <<"t", "o", "d", "a", "y">>,
     <<"n", "o", "w">>
   >>]
>>

\* klaudpad SlashCommand: its static command list
KlaudpadSlashItems == <<
  [title |-> <<"T", "e", "x", "t">>,
   aliases |-> <<
     <<"p">>,
     <<"p", "a", "r", "a", "g", "r", "a", "p", "h">>
   >>],
  [title |-> <<"H", "e", "a", "d", "i", "n", "g", " ", "1">>,
   aliases |-> <<
     <<"h", "1">>,
     <<"b", "i", "g">>,
     <<"l", "a", "r", "g", "e">>
   >>],
  [title |-> <<"H", "e", "a", "d", "i", "n", "g", " ", "2">>,
   aliases |-> <<
     <<"h", "2">>,
     <<"m", "e", "d", "i", "u", "m">>
   >>],
  [title |-> <<"H", "e", "a", "d", "i", "n", "g", " ", "3">>,
   aliases |-> <<
     <<"h", "3">>,
     <<"s", "m", "a", "l", "l">>
   >>],
  [title |-> <<"B", "u", "l", "l", "e", "t", " ", "L", "i", "s", "t">>,
   aliases |-> <<
     <<"u", "l">>,
     <<"b", "u", "l", "l", "e", "t", "s">>,
     <<"l", "i", "s", "t">>
   >>],
  [title |-> <<"N", "u", "m", "b", "e", "r", "e", "d", " ", "L", "i", "s", "t">>,
   aliases |-> <<
     <<"o", "l">>,
     <<"n", "u", "m", "b", "e", "r", "s">>,
     <<"1">>,
     <<"l", "i", "s", "t">>
   >>],
  [title |-> <<"T", "a", "s", "k", " ", "L", "i", "s", "t">>,
   aliases |-> <<
     <<"t", "o", "d", "o">>,
     <<"c", "h", "e", "c", "k">>,
     <<"t", "a", "s", "k">>
   >>],
  [title |-> <<"Q", "u", "o", "t", "e">>,
   aliases |-> <<
     <<"b", "l", "o", "c", "k", "q", "u", "o", "t", "e">>,
     <<"q", "u", "o", "t", "e">>
   >>],
  [title |-> <<"C", "o", "d", "e", " ", "B", "l", "o", "c", "k">>,
   aliases |-> <<
     <<"c", "o", "d", "e">>,
     <<"p", "r", "e">>,
     <<"s", "n", "i", "p", "p", "e", "t">>
   >>],
  [title |-> <<"D", "i", "v", "i", "d", "e", "r">>,
   aliases |-> <<
     <<"h", "r">>,
     <<"l", "i", "n", "e">>,
     <<"d", "i", "v", "i", "d", "e", "r">>,
     <<"s", "e", "p", "a", "r", "a", "t", "o", "r">>
   >>]
>>

\* characters typed after the trigger character
QueryChars == {"t", "a", "g", "T", "z"}

UpperCase == <<"A", "B", "C", "D", "E", "F", "G", "H", "I", "J", "K", "L", "M",
               "N", "O", "P", "Q", "R", "S", "T", "U", "V", "W", "X", "Y", "Z">>
LowerCase == <<"a", "b", "c", "d", "e", "f", "g", "h", "i", "j", "k", "l", "m",
               "n", "o", "p", "q", "r", "s", "t", "u", "v", "w", "x", "y", "z">>

LowerChar(ch) ==
  IF \E i \in 1..26 : UpperCase[i] = ch
  THEN LowerCase[CHOOSE i \in 1..26 : UpperCase[i] = ch]
  ELSE ch

\* a lowering that leaves every character as it is
toLowerCaseMissing(s) == s

\* String.prototype.toLowerCase
toLowerCase(s) == [i \in 1..Len(s) |-> LowerChar(s[i])]

\* String.prototype.includes
includes(s, q) ==
  \E i \in 0..(Len(s) - Len(q)) : SubSeq(s, i + 1, i + Len(q)) = q

\* Array.prototype.some over the aliases
some(aliases, lowercaseQuery) ==
  \E k \in 1..Len(aliases) : includes(toLowerCase(aliases[k]), lowercaseQuery)

\* the predicate of items.filter in getSuggestionConfig().items
ItemMatches(item, q) ==
  LET lowercaseQuery == toLowerCase(q)
  IN \/ includes(toLowerCase(item.title), lowercaseQuery)
     \/ some(item.aliases, lowercaseQuery)

\* the static list the menu of a variant is fed from
StaticItems(v) == IF v = "klaudpad" THEN KlaudpadSlashItems ELSE SlashItems

\* getSuggestionConfig(items).items({query}): the kept items, as indices
\* into the static list, in the order of Array.prototype.filter
FilterItems(list, q) ==
  SelectSeq([i \in 1..Len(list) |-> i], LAMBDA i : ItemMatches(list[i], q))

\* NaN, the value of (0 + 0 - 1) % 0
NaN == -1

\* const activeIndex = items.length === 0 ? -1 : Math.min(selectedIndex, ...)
activeIndex ==
  IF Len(items) = 0 THEN -1
  ELSE IF selectedIndex < Len(items) - 1 THEN selectedIndex
       ELSE Len(items) - 1

\* the index of the row rendered as highlighted
HighlightedIndex ==
  IF variant = "klaudpad" THEN selectedIndex ELSE activeIndex

\* x % n in JavaScript for x >= 0 (NaN when n is 0 or x is NaN)
Rem(x, n) == IF n = 0 \/ x = NaN THEN NaN ELSE x % n

InitCommandMenu(v) ==
  /\ variant = v
  /\ suggestionActive = FALSE
  /\ popupVisible = FALSE
  /\ query = <<>>
  /\ items = <<>>
  /\ selectedIndex = 0
  /\ keyHandled = FALSE
  /\ committed = 0
  /\ escaped = FALSE

\* onExit: the popup and the component are destroyed
onExit ==
  /\ suggestionActive' = FALSE
  /\ popupVisible' = FALSE
  /\ query' = <<>>
  /\ items' = <<>>
  /\ selectedIndex' = 0

\* selectItem(index): command(item) runs the item's closure on the trigger
\* range, which removes the trigger text: the suggestion exits
selectItem(index) ==
  IF index \in 0..(Len(items) - 1)
  THEN /\ committed' = items[index + 1]
       /\ onExit
  ELSE UNCHANGED <<suggestionActive, popupVisible, query, items,
                   selectedIndex, committed>>

\* the trigger character is typed: onStart
OpenMenu ==
  /\ ~suggestionActive
  /\ suggestionActive' = TRUE
  /\ popupVisible' = TRUE
  /\ query' = <<>>
  /\ items' = FilterItems(StaticItems(variant), <<>>)
  /\ selectedIndex' = 0
  /\ keyHandled' = FALSE
  /\ committed' = 0
  /\ escaped' = FALSE
  /\ UNCHANGED <<variant, noteVars, recoveryVars, abbrevVars, tagVars, codeVars,
                 appVars>>

\* onUpdate: updateProps({items}); the klaudpad menu resets its index in
\* the effect on [items]
onUpdate(q) ==
  /\ query' = q
  /\ items' = FilterItems(StaticItems(variant), q)
  /\ selectedIndex' = IF variant = "klaudpad" THEN 0 ELSE selectedIndex
  /\ UNCHANGED <<suggestionActive, popupVisible>>

\* a character is typed after the trigger: the key is not handled by the
\* menu, the query grows
TypeQuery(ch) ==
  /\ suggestionActive
  /\ Len(query) < MaxQuery
  /\ keyHandled' = FALSE
  /\ onUpdate(Append(query, ch))
  /\ UNCHANGED <<variant, committed, escaped, noteVars, recoveryVars,
                 abbrevVars, tagVars, codeVars,
                 appVars>>

\* Backspace: the query shrinks, or the trigger character goes and the
\* suggestion exits
Backspace ==
  /\ suggestionActive
  /\ keyHandled' = FALSE
  /\ IF query = <<>> THEN onExit
     ELSE onUpdate(SubSeq(query, 1, Len(query) - 1))
  /\ UNCHANGED <<variant, committed, escaped, noteVars, recoveryVars,
                 abbrevVars, tagVars, codeVars,
                 appVars>>

\* CommandMenu.onKeyDown of the two variants
MenuKeyDown(key) ==
  LET n == Len(items) IN
  IF variant # "klaudpad" /\ n = 0
  THEN /\ keyHandled' = FALSE
       /\ UNCHANGED <<suggestionActive, popupVisible, query, items,
                      selectedIndex, committed>>
  ELSE CASE key = "ArrowUp" ->
              /\ selectedIndex' = Rem(selectedIndex + n - 1, n)
              /\ keyHandled' = TRUE
              /\ UNCHANGED <<suggestionActive, popupVisible, query, items,
                             committed>>
         [] key = "ArrowDown" ->
              /\ selectedIndex' = Rem(selectedIndex + 1, n)
              /\ keyHandled' = TRUE
              /\ UNCHANGED <<suggestionActive, popupVisible, query, items,
                             committed>>
         [] key = "Enter" ->
              /\ selectItem(HighlightedIndex)
              /\ keyHandled' = TRUE

\* render().onKeyDown as called by the suggestion plugin while it is
\* active: Escape hides the popup, other keys go to the component
KeyDown(key) ==
  /\ IF ~suggestionActive
     THEN /\ keyHandled' = FALSE
          /\ UNCHANGED <<suggestionActive, popupVisible, query, items,
                         selectedIndex, committed, escaped>>
     ELSE IF key = "Escape"
     THEN /\ popupVisible' = FALSE
          /\ keyHandled' = TRUE
          /\ escaped' = TRUE
          /\ UNCHANGED <<suggestionActive, query, items, selectedIndex,
                         committed>>
     ELSE /\ MenuKeyDown(key)
          /\ UNCHANGED escaped
  /\ UNCHANGED <<variant, noteVars, recoveryVars, abbrevVars, tagVars, codeVars,
                 appVars>>

\* onPointerDown on a row of the visible popup
PointerDown(index) ==
  /\ suggestionActive
  /\ popupVisible
  /\ index \in 0..(Len(items) - 1)
  /\ selectItem(index)
  /\ UNCHANGED <<variant, keyHandled, escaped, noteVars, recoveryVars,
                 abbrevVars, tagVars, codeVars,
                 appVars>>

\* the caret leaves the trigger range (click elsewhere, blur): onExit
CloseMenu ==
  /\ suggestionActive
  /\ onExit
  /\ UNCHANGED <<variant, keyHandled, committed, escaped, noteVars,
                 recoveryVars, abbrevVars, tagVars, codeVars,
                 appVars>>

MenuKeys == {"ArrowUp", "ArrowDown", "Enter", "Escape"}

NextMenu ==
  \/ OpenMenu
  \/ \E ch \in QueryChars : TypeQuery(ch)
  \/ Backspace
  \/ \E key \in MenuKeys : KeyDown(key)
  \/ \E index \in 0..(Len(items) - 1) : PointerDown(index)
  \/ CloseMenu

\* ---------------------------------------------- abbreviation expansion
\* The document is the sequence of its tokens (an opening tag, a closing
\* tag, a leaf or one character each); position p lies after p tokens.

Str_todo == <<"t", "o", "d", "o">>
Str_ul == <<"u", "l">>
Str_ol == <<"o", "l">>
Str_li == <<">", "l", "i">>
Str_hr == <<"h", "r">>

OpenTags == {"<p>", "<taskList>", "<taskItem checked=false>",
             "<taskItem checked=true>", "<bulletList>", "<orderedList>",
             "<listItem>", "<h1>", "<h2>", "<h3>", "<h4>", "<h5>", "<h6>"}
CloseTags == {"</p>", "</taskList>", "</taskItem>", "</bulletList>",
              "</orderedList>", "</listItem>", "</heading>"}
Leaves == {"<hr/>"}
Tags == OpenTags \cup CloseTags \cup Leaves

DigitChars == <<"0", "1", "2", "3", "4", "5", "6", "7", "8", "9">>
IsDigit(ch) == \E i \in 1..10 : DigitChars[i] = ch
DigitValue(ch) == (CHOOSE i \in 1..10 : DigitChars[i] = ch) - 1

\* \d+
IsDigits(s) == s # <<>> /\ \A i \in 1..Len(s) : IsDigit(s[i])

IsSpace(ch) == ch \in {" ", "\t", "\n"}

RECURSIVE trimStart(_)
trimStart(s) ==
  IF s # <<>> /\ IsSpace(s[1]) THEN trimStart(Tail(s)) ELSE s

RECURSIVE trimEnd(_)
trimEnd(s) ==
  IF s # <<>> /\ IsSpace(s[Len(s)])
  THEN trimEnd(SubSeq(s, 1, Len(s) - 1)) ELSE s

\* a trim that keeps the white space
trimMissing(s) == s

\* String.prototype.trim
trim(s) == trimEnd(trimStart(s))

startsWith(s, prefix) ==
  Len(s) >= Len(prefix) /\ SubSeq(s, 1, Len(prefix)) = prefix

slice(s, k) == SubSeq(s, k + 1, Len(s))

NoMatch == [ok |-> FALSE, group |-> <<>>]
Match(group) == [ok |-> TRUE, group |-> group]

\* s.match(/^todo(?:>(\d+))?$/i); group <<>> is an undefined mTodo[1]
mTodo(s) ==
  LET l == toLowerCase(s) IN
  IF l = Str_todo THEN Match(<<>>)
  ELSE IF startsWith(l, Str_todo \o <<">">>) /\ IsDigits(slice(l, 5))
  THEN Match(slice(l, 5))
  ELSE NoMatch

\* /^ul(?:>li(?:\*(\d+))?)?$/i and /^ol(?:>li(?:\*(\d+))?)?$/i
mList(s, name) ==
  LET l == toLowerCase(s) IN
  IF l = name \/ l = name \o Str_li THEN Match(<<>>)
  ELSE IF startsWith(l, name \o Str_li \o <<"*">>) /\ IsDigits(slice(l, 6))
  THEN Match(slice(l, 6))
  ELSE NoMatch

mUl(s) == mList(s, Str_ul)
mOl(s) == mList(s, Str_ol)

\* /^h([1-6])\.?(.*)$/i: group is <<the digit>> \o the text of (.*)
mH(s) ==
  IF /\ Len(s) >= 2
     /\ LowerChar(s[1]) = "h"
     /\ s[2] \in {"1", "2", "3", "4", "5", "6"}
  THEN Match(<<s[2]>> \o (IF Len(s) >= 3 /\ s[3] = "." THEN slice(s, 3)
                           ELSE slice(s, 2)))
  ELSE NoMatch

\* /^hr$/i.test(s)
mHr(s) == toLowerCase(s) = Str_hr

RECURSIVE Number(_)
\* Number(digits)
Number(ds) ==
  IF ds = <<>> THEN 0
  ELSE 10 * Number(SubSeq(ds, 1, Len(ds) - 1)) + DigitValue(ds[Len(ds)])

RECURSIVE stripZeros(_)
stripZeros(ds) ==
  IF Len(ds) > 1 /\ ds[1] = "0" THEN stripZeros(Tail(ds)) ELSE ds

\* 2^32 - 1, the largest length of an Array
MaxArrayLength == <<"4", "2", "9", "4", "9", "6", "7", "2", "9", "5">>

\* Array.from({length: n}) throws a RangeError: n > 2^32 - 1 (compared on
\* the digits)
InvalidArrayLength(ds) ==
  LET d == stripZeros(ds) IN
  \/ Len(d) > Len(MaxArrayLength)
  \/ /\ Len(d) = Len(MaxArrayLength)
     /\ \E i \in 1..Len(d) :
          /\ DigitValue(d[i]) > DigitValue(MaxArrayLength[i])
          /\ \A j \in 1..(i - 1) : d[j] = MaxArrayLength[j]

\* Array.from({ length: n }, () => item)
ArrayFrom(n, item) == [i \in 1..n |-> item]

RECURSIVE Flatten(_)
Flatten(seqs) == IF seqs = <<>> THEN <<>> ELSE seqs[1] \o Flatten(Tail(seqs))

\* { type: 'taskItem', attrs: { checked: false }, content: [paragraph] }
TaskItem == <<"<taskItem checked=false>", "<p>", "</p>", "</taskItem>">>

\* { type: 'listItem', content: [{ type: 'paragraph' }] }
ListItem == <<"<listItem>", "<p>", "</p>", "</listItem>">>

ListNode(open, close, n, item) ==
  <<open>> \o Flatten(ArrayFrom(n, item)) \o <<close>>

HeadingOpen == <<"<h1>", "<h2>", "<h3>", "<h4>", "<h5>", "<h6>">>

\* { type: 'heading', attrs: { level }, content: text ? [text] : [] }
HeadingNode(level, text) == <<HeadingOpen[level]>> \o text \o <<"</heading>">>

\* n = Number(m[1] ?? 1), as digits
CountDigits(m) == IF m.group = <<>> THEN <<"1">> ELSE m.group

Expansion(kind, node) == [matched |-> TRUE, threw |-> FALSE, kind |-> kind,
                          node |-> node]
Thrown == [matched |-> TRUE, threw |-> TRUE, kind |-> "none", node |-> <<>>]
NotExpanded == [matched |-> FALSE, threw |-> FALSE, kind |-> "none",
                node |-> <<>>]

ListExpansion(kind, open, close, m, item) ==
  IF InvalidArrayLength(CountDigits(m)) THEN Thrown
  ELSE Expansion(kind, ListNode(open, close, Number(CountDigits(m)), item))

\* apply(exp, editor): the node handed to insertContent, if any
apply(exp) ==
  LET s == trim(exp) IN
  IF mTodo(s).ok
  THEN ListExpansion("taskList", "<taskList>", "</taskList>", mTodo(s),
                     TaskItem)
  ELSE IF mUl(s).ok
  THEN ListExpansion("bulletList", "<bulletList>", "</bulletList>", mUl(s),
                     ListItem)
  ELSE IF mOl(s).ok
  THEN ListExpansion("orderedList", "<orderedList>", "</orderedList>",
                     mOl(s), ListItem)
  ELSE IF mH(s).ok
  THEN Expansion("heading",
                 HeadingNode(Number(<<mH(s).group[1]>>),
                             trim(Tail(mH(s).group))))
  ELSE IF mHr(s) THEN Expansion("hr", <<"<hr/>">>)
  ELSE NotExpanded

\* ----- the editing surface under the trigger

TextblockOpens == {"<p>", "<h1>", "<h2>", "<h3>", "<h4>", "<h5>", "<h6>"}

\* index of the nearest tag at or before position pos (0: none)
NearestTag(d, pos) ==
  IF \E k \in 1..pos : d[k] \in Tags
  THEN CHOOSE k \in 1..pos :
         d[k] \in Tags /\ \A j \in (k + 1)..pos : d[j] \notin Tags
  ELSE 0

\* $pos.before($pos.depth) for a position inside a textblock
LineStart(d, pos) == NearestTag(d, pos) - 1

\* state.doc.textBetween(a, b)
textBetween(d, a, b) == SelectSeq(SubSeq(d, a + 1, b), LAMBDA t : t \notin Tags)

\* positions where a caret can stand: inside a textblock
TextPositions(d) ==
  {p \in 1..(Len(d) - 1) :
     NearestTag(d, p) > 0 /\ d[NearestTag(d, p)] \in TextblockOpens}

\* Selection.near(pos, -1): the last caret position up to pos, else the
\* first one after it
SelectionNear(d, pos) ==
  LET before == {p \in TextPositions(d) : p <= pos}
      after == {p \in TextPositions(d) : p > pos}
  IN IF before # {} THEN CHOOSE p \in before : \A q \in before : q <= p
     ELSE IF after # {} THEN CHOOSE p \in after : \A q \in after : p <= q
     ELSE pos

\* TextSelection at the first caret position after pos
SelectionAfter(d, pos) ==
  LET after == {p \in TextPositions(d) : p > pos}
  IN IF after # {} THEN CHOOSE p \in after : \A q \in after : p <= q
     ELSE pos

\* nesting depth of position pos
Depth(d, pos) ==
  Cardinality({k \in 1..pos : d[k] \in OpenTags})
    - Cardinality({k \in 1..pos : d[k] \in CloseTags})

\* insertContent(node) at a caret in a textblock: an empty textblock is
\* replaced by the node, otherwise the textblock is closed at the caret,
\* the node follows it, and what was after the caret goes on in a textblock
\* of its own
insertContent(d, from, node) ==
  IF d[from] \in OpenTags /\ d[from + 1] \in CloseTags
  THEN SubSeq(d, 1, from - 1) \o node \o SubSeq(d, from + 2, Len(d))
  ELSE IF d[from + 1] \in CloseTags
  THEN SubSeq(d, 1, from + 1) \o node \o SubSeq(d, from + 2, Len(d))
  ELSE SubSeq(d, 1, from) \o <<"</p>">> \o node
         \o <<d[NearestTag(d, from)]>> \o SubSeq(d, from + 1, Len(d))

\* setHorizontalRule: the rule is inserted, and a paragraph after it when
\* the rule ends the document
setHorizontalRule(d, from) ==
  LET d1 == insertContent(d, from, <<"<hr/>">>)
  IN IF d1[Len(d1)] = "<hr/>" THEN d1 \o <<"<p>", "</p>">> ELSE d1

\* deleteRange({from: a, to: b}): tr.delete(a, b); a range from before a
\* node to a position inside it takes the node's start with it: what is
\* left of the node stays in a node of that type, and nothing stays of a
\* node that is left empty
deleteRange(d, a, b) ==
  LET prefix == SubSeq(d, 1, a)
      suffix == SubSeq(d, b + 1, Len(d))
  IN IF Depth(d, b) = Depth(d, a) + 1 /\ suffix # <<>>
     THEN IF suffix[1] \in CloseTags THEN prefix \o Tail(suffix)
          ELSE prefix \o <<d[NearestTag(d, b)]>> \o suffix
     ELSE prefix \o suffix

\* typed lines: how a line starts ...
LineHeads == {
  <<"t", "o", "d", "o">>,
  <<"T", "O", "D", "O">>,
  <<"T", "o", "D", "o">>,
  <<" ", "t", "o", "d", "o">>,
  <<"u", "l">>,
  <<"U", "L">>,
  <<"o", "l">>,
  <<"O", "l">>,
  <<"u", "l", ">", "l", "i">>,
  <<"O", "L", ">", "L", "I">>,
  <<"o", "l", ">", "l", "i">>,
  <<"h", "1">>,
  <<"h", "2">>,
  <<"H", "3">>,
  <<"h", "6">>,
  <<"h", "7">>,
  <<"h", "0">>,
  <<"h", "r">>,
  <<"H", "R">>,
  <<"h">>,
  <<"x">>,
  <<"t", "o", "d", "o", "o">>,
  <<>>
}

\* ... and how it goes on
LineTails == {
  <<>>,
  <<">", "1">>,
  <<">", "3">>,
  <<">", "0">>,
  <<">", "0", "2">>,
  <<">", "4", "2", "9", "4", "9", "6", "7", "2", "9", "6">>,
  <<"*", "2">>,
  <<"*", "0">>,
  <<"*", "3">>,
  <<".">>,
  <<".", " ", "a">>,
  <<" ", "M", "e", "e", "t", "i", "n", "g", " ", "N", "o", "t", "e", "s">>,
  <<".", "b">>,
  <<" ">>,
  <<"x">>,
  <<">">>,
  <<">", "l", "i">>,
  <<">", "l", "i", "*", "2">>,
  <<"*">>,
  <<">", "x">>
}

\* the text between the start of the line and the caret when the trigger
\* key is pressed
Lines == {h \o t : h \in LineHeads, t \in LineTails}

\* text after the caret in its line
Rests == {<<>>, <<"x">>}

AbbrevDoc(pre, line, rest) ==
  (IF pre THEN <<"<p>", "x", "</p>">> ELSE <<>>)
    \o <<"<p>">> \o line \o rest \o <<"</p>">>

InitAbbrevIdle ==
  /\ doc = <<"<p>", "</p>">>
  /\ cursor = 1
  /\ abbrevKey = "none"

\* a line has been typed; the caret stands after it
InitAbbrevTyped ==
  /\ \E pre \in BOOLEAN, line \in Lines, rest \in Rests :
       /\ doc = AbbrevDoc(pre, line, rest)
       /\ cursor = (IF pre THEN 3 ELSE 0) + 1 + Len(line)
  /\ abbrevKey = "none"

TriggerKeys == {"Tab", "Mod-e"}

\* a trigger that consumes the key whether or not a pattern matched
triggerSwallowsKey(key) ==
  LET from == cursor
      lineStart == LineStart(doc, from)
      lineText == textBetween(doc, lineStart, from)
      r == apply(lineText)
  IN
  /\ abbrevKey = "none"
  /\ abbrevKey' = "consumed"
  /\ UNCHANGED <<doc, cursor>>
  /\ UNCHANGED <<noteVars, recoveryVars, menuVars, tagVars, codeVars,
                 appVars>>

\* the keyboard shortcut of AbbrevExpand (Tab, Mod-e), pressed once:
\* "consumed" is a return of true, "default" a return of false, "threw" an
\* exception that leaves the handler
trigger(key) ==
  LET from == cursor
      lineStart == LineStart(doc, from)
      lineText == textBetween(doc, lineStart, from)
      r == apply(lineText)
      inserted == IF r.kind = "hr" THEN setHorizontalRule(doc, from)
                  ELSE insertContent(doc, from, r.node)
  IN
  /\ abbrevKey = "none"
  /\ IF r.threw
     THEN /\ abbrevKey' = "threw"
          /\ UNCHANGED <<doc, cursor>>
     ELSE IF r.matched
     THEN /\ abbrevKey' = "consumed"
          /\ doc' = deleteRange(inserted, lineStart, from)
          /\ cursor' = IF r.kind = "hr" THEN SelectionAfter(doc', lineStart)
                       ELSE SelectionNear(doc', lineStart + Len(r.node))
     ELSE /\ abbrevKey' = "default"
          /\ UNCHANGED <<doc, cursor>>
  /\ UNCHANGED <<noteVars, recoveryVars, menuVars, tagVars, codeVars,
                 appVars>>

NextAbbrev == \E key \in TriggerKeys : trigger(key)

\* ------------------------------------------------------------- tag chips
\* (editor/TagChip.ts) The document is the sequence of its tokens, as for
\* the abbreviations; a chip is its opening token, the characters of its
\* text and its closing token.

TagChipColor == {"blue", "green", "yellow", "red", "purple"}

ChipOpen(color) ==
  CASE color = "blue" -> "<tagChip blue>"
    [] color = "green" -> "<tagChip green>"
    [] color = "yellow" -> "<tagChip yellow>"
    [] color = "red" -> "<tagChip red>"
    [] color = "purple" -> "<tagChip purple>"

ChipOpens == {ChipOpen(color) : color \in TagChipColor}
ChipClose == "</tagChip>"
ChipTags == ChipOpens \cup {ChipClose, "<p>", "</p>"}

\* this.type.create({ color }, schema.text(text)) as tokens
ChipNode(color, text) == <<ChipOpen(color)>> \o text \o <<ChipClose>>

\* /\s/
WhitespaceChars == {" ", "\t"}
IsWhitespace(ch) == ch \in WhitespaceChars

\* /\w/
WordChars == {"a", "b", "d", "e", "g", "i", "t", "x", "1", "_"}

\* Math.max / Math.min
max(a, b) == IF a > b THEN a ELSE b
min(a, b) == IF a < b THEN a ELSE b

\* state.doc.textBetween(a, b, '', ''): the characters between two
\* positions; node boundaries contribute nothing
chipTextBetween(d, a, b) ==
  SelectSeq(SubSeq(d, a + 1, b), LAMBDA t : t \notin ChipTags)

\* index of the opening token of the chip position pos lies in (0: pos is
\* not inside a chip)
ChipAround(d, pos) ==
  IF \E k \in 1..pos :
       d[k] \in ChipOpens /\ \A j \in (k + 1)..pos : d[j] # ChipClose
  THEN CHOOSE k \in 1..pos :
         d[k] \in ChipOpens /\ \A j \in (k + 1)..pos : d[j] # ChipClose
  ELSE 0

\* positions of inline content: inside a paragraph or inside a chip
InlinePositions(d) == {p \in 1..(Len(d) - 1) : d[p] # "</p>"}

\* tr.replaceWith(from, to, [spacer?, chip, spacer?]) on inline content.
\* Text fits where the range starts; a chip does not fit inside a chip, so
\* a chip the range starts in is closed before the new chip.  Where the
\* range ends inside a chip, what is left of that chip goes on in a chip of
\* the same attributes (nothing is left: the chip ends there).
replaceWithChip(d, from, to, prefix, chip, suffix) ==
  LET around == ChipAround(d, to)
      after ==
        IF around = 0 THEN SubSeq(d, to + 1, Len(d))
        ELSE IF d[to + 1] = ChipClose THEN SubSeq(d, to + 2, Len(d))
        ELSE <<d[around]>> \o SubSeq(d, to + 1, Len(d))
  IN SubSeq(d, 1, from) \o prefix
       \o (IF ChipAround(d, from) # 0 THEN <<ChipClose>> ELSE <<>>)
       \o chip \o suffix \o after

\* insertTagChip({ color, text }): the new document and selection
insertTagChip(d, sel, color, text) ==
  LET from == sel[1]
      to == sel[2]
      beforePos == max(from - 1, 0)
      afterPos == min(to + 1, Len(d))
      charBefore ==
        IF from > 1 THEN chipTextBetween(d, beforePos, from) ELSE <<>>
      charAfter == chipTextBetween(d, to, afterPos)
      needsPrefixSpace == charBefore # <<>> /\ ~IsWhitespace(charBefore[1])
      needsSuffixSpace == charAfter = <<>> \/ ~IsWhitespace(charAfter[1])
      newDoc == replaceWithChip(d, from, to,
                                IF needsPrefixSpace THEN <<" ">> ELSE <<>>,
                                ChipNode(color, text),
                                IF needsSuffixSpace THEN <<" ">> ELSE <<>>)
      chipStart == from + (IF needsPrefixSpace THEN 1 ELSE 0)
  IN \* setTextSelection clamps both ends into the document's text range
     [doc |-> newDoc,
      selection |-> <<ClampPos(chipStart + 1, Len(newDoc) - 1),
                      ClampPos(chipStart + 1 + Len(text), Len(newDoc) - 1)>>]

\* ----- the input rule

\* /(?:^|\s)#(\w+)\s$/ on the text before the caret with the typed
\* character appended: the match (match[0]) and its group (match[1]), or
\* no match.  The word holds no "#" and no white space, so the "#" of a
\* match is the last one of the text.
NoRuleMatch == [ok |-> FALSE, full |-> <<>>, word |-> <<>>]

RuleMatch(s) ==
  LET n == Len(s)
      hashes == {k \in 1..n : s[k] = "#"}
      h == CHOOSE k \in hashes : \A j \in hashes : j <= k
  IN IF /\ n >= 3
        /\ IsWhitespace(s[n])
        /\ hashes # {}
        /\ h < n - 1
        /\ \A j \in (h + 1)..(n - 1) : s[j] \in WordChars
        /\ (h = 1 \/ IsWhitespace(s[h - 1]))
     THEN [ok |-> TRUE,
           full |-> SubSeq(s, IF h = 1 THEN 1 ELSE h - 1, n),
           word |-> SubSeq(s, h + 1, n - 1)]
     ELSE NoRuleMatch

\* tr.insertText(' ', pos): the text goes where pos lies, inside a chip too
insertText(d, ch, pos) == SubSeq(d, 1, pos) \o <<ch>> \o SubSeq(d, pos + 1, Len(d))

\* the rule's handler: the steps it puts into the transaction (as the
\* document they lead to) and the value it returns
ruleHandler(d, range, match) ==
  LET fullMatch == match.full
      tagText == match.word
      hasLeadingSpace == fullMatch[1] = " "
      start == IF hasLeadingSpace THEN range.from + 1 ELSE range.from
      end == range.to
      replaced == SubSeq(d, 1, start) \o ChipNode("blue", tagText)
                    \o SubSeq(d, end + 1, Len(d))
  IN [doc |-> insertText(replaced, " ", start + 1), returned |-> "null"]

\* text of the caret's parent before the caret (getTextContentFromNodes)
TextBeforeCaret(d, pos) ==
  LET opens == {k \in 1..pos : d[k] = "<p>"}
      open == CHOOSE k \in opens : \A j \in opens : j <= k
  IN chipTextBetween(d, open, pos)

\* ----- serialisation

\* chip texts that are serialised
ChipTexts == {<<>>, <<"f", "o", "o">>, <<"t", "a", "g">>, <<"a">>,
              <<"#", "x">>}

Chip(color, text) == [color |-> color, text |-> text]

\* node.toJSON(): the content key is left out of a node without content
toJSON(chip) ==
  IF chip.text = <<>>
  THEN [type |-> "tagChip", attrs |-> [color |-> chip.color]]
  ELSE [type |-> "tagChip", attrs |-> [color |-> chip.color],
        content |-> <<[type |-> "text", text |-> chip.text]>>]

\* schema.nodeFromJSON(json)
fromJSON(json) ==
  Chip(json.attrs.color,
       IF "content" \in DOMAIN json THEN json.content[1].text ELSE <<>>)

TextNode(text) == [kind |-> "text", text |-> text]
Element(tag, attrs, children) ==
  [kind |-> "element", tag |-> tag, attrs |-> attrs, children |-> children]

\* mergeAttributes(HTMLAttributes, { 'data-tag-chip': '' })
mergeAttributes(a, b) == b @@ a

\* renderHTML: <span data-color=.. data-tag-chip="">#<span
\* class="tag-chip-text">(content)</span></span>
renderHTML(chip) ==
  Element("span",
          mergeAttributes(("data-color" :> chip.color),
                          ("data-tag-chip" :> "")),
          <<TextNode(<<"#">>),
            Element("span", ("class" :> "tag-chip-text"),
                    IF chip.text = <<>> THEN <<>>
                    ELSE <<TextNode(chip.text)>>)>>)

\* element.getAttribute(name): "" stands for null and for the empty value
getAttribute(element, name) ==
  IF name \in DOMAIN element.attrs THEN element.attrs[name] ELSE ""

\* the text a parse rule without contentElement reads from an element: all
\* text below it, through elements no rule matches
RECURSIVE textContent(_)
textContent(children) ==
  IF children = <<>> THEN <<>>
  ELSE LET c == Head(children)
       IN (IF c.kind = "text" THEN c.text ELSE textContent(c.children))
            \o textContent(Tail(children))

\* parseHTML: tag 'span[data-tag-chip]', color from data-color or 'blue'
parseHTML(element) ==
  IF element.tag = "span" /\ "data-tag-chip" \in DOMAIN element.attrs
  THEN <<Chip(IF getAttribute(element, "data-color") # ""
              THEN getAttribute(element, "data-color") ELSE "blue",
              textContent(element.children))>>
  ELSE <<>>

\* ----- the editor operations on chips

\* editor.isActive('tagChip'): a caret inside a chip; a range of which the
\* chips it touches cover all
isActiveTagChip(d, sel) ==
  LET from == sel[1]
      to == sel[2]
      \* chips as <<position before, position after>>
      chips == {<<k - 1, CHOOSE e \in k..Len(d) :
                            d[e] = ChipClose
                            /\ \A j \in k..(e - 1) : d[j] # ChipClose>> :
                  k \in {i \in 1..Len(d) : d[i] \in ChipOpens}}
      touched == {c \in chips : c[1] < to /\ c[2] > from}
      covered[S \in SUBSET touched] ==
        IF S = {} THEN 0
        ELSE LET c == CHOOSE x \in S : TRUE
             IN (min(to, c[2]) - max(from, c[1])) + covered[S \ {c}]
  IN IF from = to THEN touched # {}
     ELSE touched # {} /\ covered[touched] >= to - from

\* setTagChipColor(color): updateAttributes on the chips the selection
\* touches
setTagChipColor(d, sel, color) ==
  [k \in 1..Len(d) |->
     IF /\ d[k] \in ChipOpens
        /\ k - 1 < sel[2]
        /\ \E e \in k..Len(d) :
             /\ d[e] = ChipClose
             /\ \A j \in k..(e - 1) : d[j] # ChipClose
             /\ e > sel[1]
     THEN ChipOpen(color) ELSE d[k]]

InitTagIdle ==
  /\ tagDoc = <<"<p>", "</p>">>
  /\ tagSel = <<1, 1>>
  /\ tagOp = "none"
  /\ tagChip = Chip("blue", <<>>)
  /\ tagWire = [format |-> "none"]
  /\ tagBack = <<>>

\* documents a chip is inserted into
InsertDocs ==
  {<<"<p>", "</p>">>,
   <<"<p>", "a", "</p>">>,
   <<"<p>", "a", " ", "b", "</p>">>,
   <<"<p>", "a", "\t", "b", "</p>">>,
   <<"<p>", "a", ChipOpen("red"), "x", "y", ChipClose, " ", "b", "</p>">>,
   <<"<p>", ChipOpen("red"), "x", ChipClose, "</p>">>,
   <<"<p>", "a", "</p>", "<p>", "b", "</p>">>}

InitTagInsert ==
  /\ tagDoc \in InsertDocs
  /\ \E from \in InlinePositions(tagDoc), to \in InlinePositions(tagDoc) :
       from <= to /\ tagSel = <<from, to>>
  /\ tagOp = "none"
  /\ tagChip = Chip("blue", <<>>)
  /\ tagWire = [format |-> "none"]
  /\ tagBack = <<>>

\* texts a chip is inserted with ('tag' is the default and the menu's)
InsertTexts == {<<"t", "a", "g">>, <<"a">>}

\* editor.commands.insertTagChip({ color, text })
InsertTagChip(color, text) ==
  /\ tagOp = "none"
  /\ LET r == insertTagChip(tagDoc, tagSel, color, text)
     IN /\ tagDoc' = r.doc
        /\ tagSel' = r.selection
  /\ tagOp' = "inserted"
  /\ UNCHANGED <<tagChip, tagWire, tagBack>>
  /\ UNCHANGED <<noteVars, recoveryVars, menuVars, abbrevVars, codeVars,
                 appVars>>

\* the slash menu's tag items: insertOrRecolorTag(editor, color)
insertOrRecolorTag(color) ==
  IF isActiveTagChip(tagDoc, tagSel)
  THEN /\ tagOp = "none"
       /\ tagDoc' = setTagChipColor(tagDoc, tagSel, color)
       /\ tagOp' = "recolored"
       /\ UNCHANGED <<tagSel, tagChip, tagWire, tagBack>>
       /\ UNCHANGED <<noteVars, recoveryVars, menuVars, abbrevVars, codeVars,
                 appVars>>
  ELSE InsertTagChip(color, <<"t", "a", "g">>)

NextTagInsert ==
  \/ \E color \in TagChipColor, text \in InsertTexts :
       InsertTagChip(color, text)
  \/ \E color \in TagChipColor : insertOrRecolorTag(color)

\* lines typed before the character that may complete the pattern
RuleLines ==
  {<<>>, <<"#">>, <<"i", "d", "e", "a">>, <<"#", "i", "d", "e", "a">>,
   <<"#", "a">>, <<"#", "a", "_", "1">>, <<"#", "a", "-", "b">>,
   <<"a", " ", "#", "i", "d">>, <<"a", "\t", "#", "i", "d">>,
   <<"a", "#", "i", "d">>, <<" ", "#", "x">>, <<"\t", "#", "x">>,
   <<"#", "a", " ", "#", "b">>, <<"#", "#", "x">>, <<"a", " ", "#">>,
   <<"#", "x", " ">>}

RuleRests == {<<>>, <<"x">>, <<" ", "y">>}

TypedChars == {" ", "\t", "a"}

InitTagRule ==
  /\ \E line \in RuleLines, rest \in RuleRests :
       /\ tagDoc = <<"<p>">> \o line \o rest \o <<"</p>">>
       /\ tagSel = <<1 + Len(line), 1 + Len(line)>>
  /\ tagOp = "none"
  /\ tagChip = Chip("blue", <<>>)
  /\ tagWire = [format |-> "none"]
  /\ tagBack = <<>>

\* the input-rule plugin on typed text (run): the first rule that matches
\* has its handler build a transaction, which is dispatched unless the
\* handler returned null or added no step
run(d, from, text) ==
  LET textBefore == TextBeforeCaret(d, from) \o <<text>>
      match == RuleMatch(textBefore)
      range == [from |-> from - (Len(match.full) - 1), to |-> from]
      handler == ruleHandler(d, range, match)
  IN IF match.ok /\ handler.returned # "null"
     THEN [matched |-> TRUE, doc |-> handler.doc]
     ELSE [matched |-> FALSE, doc |-> d]

\* a character is typed at the caret: the input rules run first, and the
\* character is inserted as text when no rule took it
TypeText(ch) ==
  /\ tagOp = "none"
  /\ tagSel[1] = tagSel[2]
  /\ LET r == run(tagDoc, tagSel[1], ch)
     IN IF r.matched
        THEN /\ tagDoc' = r.doc
             /\ tagSel' = <<tagSel[1] + (Len(r.doc) - Len(tagDoc)),
                            tagSel[1] + (Len(r.doc) - Len(tagDoc))>>
             /\ tagOp' = "rule"
        ELSE /\ tagDoc' = insertText(tagDoc, ch, tagSel[1])
             /\ tagSel' = <<tagSel[1] + 1, tagSel[1] + 1>>
             /\ tagOp' = "typed"
  /\ UNCHANGED <<tagChip, tagWire, tagBack>>
  /\ UNCHANGED <<noteVars, recoveryVars, menuVars, abbrevVars, codeVars,
                 appVars>>

NextTagRule == \E ch \in TypedChars : TypeText(ch)

InitTagSerial ==
  /\ tagDoc = <<"<p>", "</p>">>
  /\ tagSel = <<1, 1>>
  /\ tagOp = "none"
  /\ \E color \in TagChipColor, text \in ChipTexts :
       tagChip = Chip(color, text)
  /\ tagWire = [format |-> "none"]
  /\ tagBack = <<>>

Formats == {"json", "html"}

\* the chip is written out: JSON for the store, HTML for the clipboard
Serialize(format) ==
  /\ tagWire.format = "none"
  /\ tagWire' = [format |-> format,
                 value |-> IF format = "json" THEN toJSON(tagChip)
                           ELSE renderHTML(tagChip)]
  /\ UNCHANGED <<tagDoc, tagSel, tagOp, tagChip, tagBack>>
  /\ UNCHANGED <<noteVars, recoveryVars, menuVars, abbrevVars, codeVars,
                 appVars>>

\* and read back
Parse ==
  /\ tagWire.format # "none"
  /\ tagBack = <<>>
  /\ tagBack' = IF tagWire.format = "json" THEN <<fromJSON(tagWire.value)>>
                ELSE parseHTML(tagWire.value)
  /\ UNCHANGED <<tagDoc, tagSel, tagOp, tagChip, tagWire>>
  /\ UNCHANGED <<noteVars, recoveryVars, menuVars, abbrevVars, codeVars,
                 appVars>>

NextTagSerial ==
  \/ \E format \in Formats : Serialize(format)
  \/ Parse

\* ------------------------------------------- code language classifier
\* (lib/editor/codeFormat.ts) Snippets and language names are sequences of
\* characters; null and the empty string are the empty sequence.

Null == <<>>

\* a node of a regular expression's syntax tree: literal characters
\* ("lit"), one character of a set ("cls"), any character ("any"), a
\* sequence ("seq"), alternatives ("alt"), one of some words ("words"),
\* r* ("star"), r+ ("plus"), r? ("opt"), ^ ("bol") and \b ("wb")
Rx(k, x) == [k |-> k, x |-> x]

\* the character classes \d, a-z, A-Z, \w and \s
CharClass ==
  LET digits == {"0", "1", "2", "3", "4", "5", "6", "7", "8", "9"}
      lower == {LowerCase[i] : i \in 1..26}
      upper == {UpperCase[i] : i \in 1..26}
  IN [d |-> digits, lower |-> lower, upper |-> upper,
      w |-> lower \cup upper \cup digits \cup {"_"},
      s |-> {" ", "\t", "\n"}]

\* the positions a match of r can end at when it starts at a position of
\* the set I; with the i flag, characters are compared in lower case
RECURSIVE Ends(_, _, _, _)
Ends(r, s, I, ignoreCase) ==
  LET fold(c) == IF ignoreCase THEN LowerChar(c) ELSE c
      isWord(i) == i >= 1 /\ i <= Len(s) /\ s[i] \in CharClass.w
  IN CASE r.k = "lit" ->
            {i + Len(r.x) : i \in
               {j \in I : /\ j + Len(r.x) <= Len(s)
                          /\ \A n \in 1..Len(r.x) :
                               fold(s[j + n]) = fold(r.x[n])}}
       [] r.k = "cls" ->
            {i + 1 : i \in
               {j \in I : /\ j < Len(s)
                          /\ fold(s[j + 1]) \in {fold(c) : c \in r.x}}}
       [] r.k = "any" -> {i + 1 : i \in {j \in I : j < Len(s)}}
       [] r.k = "seq" ->
            IF r.x = <<>> THEN I
            ELSE UNION {Ends(Rx("seq", Tail(r.x)), s, {e}, ignoreCase) :
                          e \in Ends(Head(r.x), s, I, ignoreCase)}
       [] r.k = "alt" ->
            UNION {Ends(r.x[n], s, I, ignoreCase) : n \in 1..Len(r.x)}
       [] r.k = "words" ->
            UNION {Ends(Rx("lit", r.x[n]), s, I, ignoreCase) :
                     n \in 1..Len(r.x)}
       [] r.k = "star" ->
            I \cup UNION {Ends(r, s, {e}, ignoreCase) :
                            e \in Ends(r.x, s, I, ignoreCase) \ I}
       [] r.k = "plus" ->
            Ends(Rx("seq", <<r.x, Rx("star", r.x)>>), s, I, ignoreCase)
       [] r.k = "opt" -> I \cup Ends(r.x, s, I, ignoreCase)
       [] r.k = "bol" -> I \cap {0}
       [] r.k = "wb" -> {i \in I : isWord(i) # isWord(i + 1)}

\* RegExp.prototype.test
test(r, s, ignoreCase) == Ends(r, s, 0..Len(s), ignoreCase) # {}

\* a JSON number or literal:
\* -?(0|[1-9]\d*)(\.\d+)?([eE][+-]?\d+)?, true, false, null
JsonScalar ==
  Rx("alt", <<
    Rx("seq", <<
      Rx("opt", Rx("lit", <<"-">>)),
      Rx("alt", <<Rx("lit", <<"0">>),
                  Rx("seq", <<Rx("cls", CharClass.d \ {"0"}),
                              Rx("star", Rx("cls", CharClass.d))>>)
                >>),
      Rx("opt", Rx("seq", <<Rx("lit", <<".">>),
                            Rx("plus", Rx("cls", CharClass.d))>>)),
      Rx("opt", Rx("seq", <<Rx("cls", {"e", "E"}),
                            Rx("opt", Rx("cls", {"+", "-"})),
                            Rx("plus", Rx("cls", CharClass.d))>>))
    >>),
    Rx("words", <<<<"t", "r", "u", "e">>, <<"f", "a", "l", "s", "e">>, <<"n", "u", "l", "l">>>>)>>)

\* the end of the string whose opening quote ends at position i, or -1
RECURSIVE JsonStringEnd(_, _)
JsonStringEnd(s, i) ==
  IF i >= Len(s) THEN -1
  ELSE IF s[i + 1] = "\"" THEN i + 1
  ELSE IF s[i + 1] = "\\"
  THEN IF i + 1 < Len(s)
          /\ s[i + 2] \in {"\"", "\\", "/", "b", "f", "n", "r", "t"}
       THEN JsonStringEnd(s, i + 2) ELSE -1
  ELSE IF s[i + 1] \in {"\n", "\t"} THEN -1
  ELSE JsonStringEnd(s, i + 1)

\* the end of the string, number or literal that starts at position i, or -1
JsonScalarEnd(s, i) ==
  IF s[i + 1] = "\"" THEN JsonStringEnd(s, i + 1)
  ELSE LET ends == Ends(JsonScalar, s, {i}, FALSE)
       IN CHOOSE e \in ends \cup {-1} : \A f \in ends : f <= e

\* the parser at position i, inside the open braces and brackets of stack:
\* expect is what may come next
RECURSIVE JsonScan(_, _, _, _)
JsonScan(s, i, stack, expect) ==
  IF i >= Len(s) THEN expect = "end" /\ stack = <<>>
  ELSE IF s[i + 1] \in CharClass.s THEN JsonScan(s, i + 1, stack, expect)
  ELSE IF expect \in {"value", "first value"} /\ s[i + 1] = "{"
  THEN JsonScan(s, i + 1, Append(stack, "{"), "first key")
  ELSE IF expect \in {"value", "first value"} /\ s[i + 1] = "["
  THEN JsonScan(s, i + 1, Append(stack, "["), "first value")
  ELSE IF \/ expect = "first value" /\ s[i + 1] = "]"
          \/ expect = "first key" /\ s[i + 1] = "}"
          \/ /\ expect = "end" /\ stack # <<>>
             /\ <<stack[Len(stack)], s[i + 1]>>
                  \in {<<"{", "}">>, <<"[", "]">>}
  THEN JsonScan(s, i + 1, SubSeq(stack, 1, Len(stack) - 1), "end")
  ELSE IF expect = "end" /\ stack # <<>> /\ s[i + 1] = ","
  THEN JsonScan(s, i + 1, stack,
                IF stack[Len(stack)] = "{" THEN "key" ELSE "value")
  ELSE IF expect = "colon" /\ s[i + 1] = ":"
  THEN JsonScan(s, i + 1, stack, "value")
  ELSE IF expect \in {"key", "first key"} /\ s[i + 1] = "\""
  THEN JsonStringEnd(s, i + 1) # -1
       /\ JsonScan(s, JsonStringEnd(s, i + 1), stack, "colon")
  ELSE IF expect \in {"value", "first value"}
  THEN JsonScalarEnd(s, i) # -1
       /\ JsonScan(s, JsonScalarEnd(s, i), stack, "end")
  ELSE FALSE

\* JSON.parse(text) returns (does not throw)
JsonParses(text) == JsonScan(text, 0, <<>>, "value")

\* ----- languages

\* Object.keys(languageDefinitions): the registered grammars, in
\* registration order (editorLowlight.listLanguages())
languageDefinitions ==
  <<<<"b", "a", "s", "h">>, <<"c", "s", "s">>, <<"g", "o">>, <<"h", "t", "m", "l">>, <<"j", "a", "v", "a">>,
    <<"j", "a", "v", "a", "s", "c", "r", "i", "p", "t">>, <<"j", "s", "o", "n">>, <<"m", "a", "r", "k", "d", "o", "w", "n">>, <<"p", "y", "t", "h", "o", "n">>,
    <<"s", "c", "s", "s">>, <<"s", "q", "l">>, <<"t", "y", "p", "e", "s", "c", "r", "i", "p", "t">>, <<"y", "a", "m", "l">>>>

aliasToLanguage ==
  (<<"s", "h">> :> <<"b", "a", "s", "h">>) @@ (<<"s", "h", "e", "l", "l">> :> <<"b", "a", "s", "h">>) @@
  (<<"z", "s", "h">> :> <<"b", "a", "s", "h">>) @@ (<<"j", "s">> :> <<"j", "a", "v", "a", "s", "c", "r", "i", "p", "t">>) @@
  (<<"j", "s", "x">> :> <<"j", "a", "v", "a", "s", "c", "r", "i", "p", "t">>) @@ (<<"t", "s">> :> <<"t", "y", "p", "e", "s", "c", "r", "i", "p", "t">>) @@
  (<<"t", "s", "x">> :> <<"t", "y", "p", "e", "s", "c", "r", "i", "p", "t">>) @@ (<<"y", "m", "l">> :> <<"y", "a", "m", "l">>) @@
  (<<"m", "d">> :> <<"m", "a", "r", "k", "d", "o", "w", "n">>) @@ (<<"x", "m", "l">> :> <<"h", "t", "m", "l">>)

supportedLanguages ==
  {languageDefinitions[n] : n \in 1..Len(languageDefinitions)}
    \cup DOMAIN aliasToLanguage

parserByLanguage ==
  (<<"j", "a", "v", "a", "s", "c", "r", "i", "p", "t">> :> "babel") @@ (<<"t", "y", "p", "e", "s", "c", "r", "i", "p", "t">> :> "typescript") @@
  (<<"j", "s", "o", "n">> :> "json") @@ (<<"h", "t", "m", "l">> :> "html") @@
  (<<"c", "s", "s">> :> "css") @@ (<<"s", "c", "s", "s">> :> "scss") @@
  (<<"m", "a", "r", "k", "d", "o", "w", "n">> :> "markdown") @@ (<<"y", "a", "m", "l">> :> "yaml") @@
  (<<"j", "a", "v", "a">> :> "java") @@ (<<"s", "q", "l">> :> "sql")

normalizeCodeLanguage(input) ==
  LET normalized == toLowerCase(trim(input))
  IN IF input = Null THEN Null
     ELSE IF normalized = <<>> THEN Null
     ELSE IF normalized \notin supportedLanguages THEN Null
     ELSE IF normalized \in DOMAIN aliasToLanguage
     THEN aliasToLanguage[normalized]
     ELSE normalized

\* ----- deterministic detectors

isStrictJsonSnippet(code) ==
  LET snippet == trim(code)
  IN /\ snippet # <<>>
     /\ startsWith(snippet, <<"{">>) \/ startsWith(snippet, <<"[">>)
     /\ JsonParses(snippet)

\* /^(with|select|insert|update|delete|create|alter|drop|truncate
\*    |merge)\b/i
startsLikeSql ==
  Rx("seq", <<
    Rx("bol", <<>>),
    Rx("words", <<<<"w", "i", "t", "h">>, <<"s", "e", "l", "e", "c", "t">>, <<"i", "n", "s", "e", "r", "t">>,
                  <<"u", "p", "d", "a", "t", "e">>, <<"d", "e", "l", "e", "t", "e">>, <<"c", "r", "e", "a", "t", "e">>,
                  <<"a", "l", "t", "e", "r">>, <<"d", "r", "o", "p">>, <<"t", "r", "u", "n", "c", "a", "t", "e">>,
                  <<"m", "e", "r", "g", "e">>>>),
    Rx("wb", <<>>)>>)

\* /\b(from|where|join|group\s+by|order\s+by|having|limit|values|set
\*     |into)\b/i
hasCoreClauses ==
  Rx("seq", <<
    Rx("wb", <<>>),
    Rx("alt", <<
      Rx("words", <<<<"f", "r", "o", "m">>, <<"w", "h", "e", "r", "e">>, <<"j", "o", "i", "n">>>>),
      Rx("seq", <<Rx("lit", <<"g", "r", "o", "u", "p">>), Rx("plus", Rx("cls", CharClass.s)), Rx("lit", <<"b", "y">>)>>),
      Rx("seq", <<Rx("lit", <<"o", "r", "d", "e", "r">>), Rx("plus", Rx("cls", CharClass.s)), Rx("lit", <<"b", "y">>)>>),
      Rx("words", <<<<"h", "a", "v", "i", "n", "g">>, <<"l", "i", "m", "i", "t">>, <<"v", "a", "l", "u", "e", "s">>,
                    <<"s", "e", "t">>, <<"i", "n", "t", "o">>>>)>>),
    Rx("wb", <<>>)>>)

\* /;|\*/
hasSqlPunctuation == Rx("alt", <<Rx("lit", <<";">>), Rx("lit", <<"*">>)>>)

\* /(System\.out\.println|public\s+class|import\s+java\.
\*   |package\s+[a-z0-9_.]+;)/i
hasJavaSignature ==
  Rx("alt", <<
    Rx("lit", <<"S", "y", "s", "t", "e", "m", ".", "o", "u", "t", ".", "p",
              "r", "i", "n", "t", "l", "n">>),
    Rx("seq", <<Rx("lit", <<"p", "u", "b", "l", "i", "c">>), Rx("plus", Rx("cls", CharClass.s)),
                Rx("lit", <<"c", "l", "a", "s", "s">>)>>),
    Rx("seq", <<Rx("lit", <<"i", "m", "p", "o", "r", "t">>), Rx("plus", Rx("cls", CharClass.s)),
                Rx("lit", <<"j", "a", "v", "a", ".">>)>>),
    Rx("seq", <<Rx("lit", <<"p", "a", "c", "k", "a", "g", "e">>), Rx("plus", Rx("cls", CharClass.s)),
                Rx("plus", Rx("cls", CharClass.lower \cup CharClass.d
                                       \cup {"_", "."})),
                Rx("lit", <<";">>)>>)>>)

\* /\b(?:public|private|protected)?\s*(?:static\s+)?
\*   (?:void|int|long|double|float|boolean|String)\s+[A-Za-z_]\w*\b/
hasTypedMembers ==
  Rx("seq", <<
    Rx("wb", <<>>),
    Rx("opt", Rx("words", <<<<"p", "u", "b", "l", "i", "c">>, <<"p", "r", "i", "v", "a", "t", "e">>,
                            <<"p", "r", "o", "t", "e", "c", "t", "e", "d">>>>)),
    Rx("star", Rx("cls", CharClass.s)),
    Rx("opt", Rx("seq", <<Rx("lit", <<"s", "t", "a", "t", "i", "c">>), Rx("plus", Rx("cls", CharClass.s))>>)),
    Rx("words", <<<<"v", "o", "i", "d">>, <<"i", "n", "t">>, <<"l", "o", "n", "g">>, <<"d", "o", "u", "b", "l", "e">>,
                  <<"f", "l", "o", "a", "t">>, <<"b", "o", "o", "l", "e", "a", "n">>, <<"S", "t", "r", "i", "n", "g">>>>),
    Rx("plus", Rx("cls", CharClass.s)),
    Rx("cls", CharClass.lower \cup CharClass.upper \cup {"_"}),
    Rx("star", Rx("cls", CharClass.w)),
    Rx("wb", <<>>)>>)

\* /{[\s\S]*}/
hasCStyleBlocks ==
  Rx("seq", <<Rx("lit", <<"{">>), Rx("star", Rx("any", <<>>)),
              Rx("lit", <<"}">>)>>)

isLikelySqlSnippet(code) ==
  LET snippet == trim(code)
  IN /\ snippet # <<>>
     /\ test(startsLikeSql, snippet, TRUE)
     /\ \/ test(hasCoreClauses, snippet, TRUE)
        \/ test(hasSqlPunctuation, snippet, FALSE)

isLikelyJavaSnippet(code) ==
  LET snippet == trim(code)
  IN /\ snippet # <<>>
     /\ \/ test(hasJavaSignature, snippet, TRUE)
        \/ /\ test(hasTypedMembers, snippet, FALSE)
           /\ test(hasCStyleBlocks, snippet, FALSE)

deterministicDetectorsJavaFirst == <<<<"j", "a", "v", "a">>, <<"s", "q", "l">>, <<"j", "s", "o", "n">>>>

\* the language of each detector, in the order find() tries them
deterministicDetectors == <<<<"j", "s", "o", "n">>, <<"s", "q", "l">>, <<"j", "a", "v", "a">>>>

\* editorLowlight.highlight(language, code).data.relevance, given the
\* relevance the grammars score on the block's text
highlight(scores, language) ==
  IF language \in DOMAIN scores THEN scores[language] ELSE 0

\* scored, sorted by descending relevance (Array.prototype.sort is stable)
rankLanguagesByRelevance(scores) ==
  LET registered == languageDefinitions
      scored == [n \in 1..Len(registered) |->
                   [language |-> registered[n],
                    relevance |-> highlight(scores, registered[n])]]
      place(n) == 1 + Cardinality(
                    {m \in 1..Len(scored) :
                       \/ scored[m].relevance > scored[n].relevance
                       \/ /\ scored[m].relevance = scored[n].relevance
                          /\ m < n})
  IN [p \in 1..Len(scored) |->
        scored[CHOOSE n \in 1..Len(scored) : place(n) = p]]

detectCodeLanguageMetaUnguarded(code, scores) ==
  LET ranked == rankLanguagesByRelevance(scores)
  IN [language |-> normalizeCodeLanguage(ranked[1].language),
      strategy |-> "relevance",
      relevance |-> ranked[1].relevance,
      secondRelevance |-> ranked[2].relevance]

detectCodeLanguageMeta(code, scores) ==
  LET snippet == trim(code)
      detectorTest(language) ==
        CASE language = <<"j", "s", "o", "n">> -> isStrictJsonSnippet(snippet)
          [] language = <<"s", "q", "l">> -> isLikelySqlSnippet(snippet)
          [] language = <<"j", "a", "v", "a">> -> isLikelyJavaSnippet(snippet)
      matches == {n \in 1..Len(deterministicDetectors) :
                    detectorTest(deterministicDetectors[n])}
      deterministicMatch ==
        deterministicDetectors[CHOOSE n \in matches :
                                 \A m \in matches : n <= m]
      \* Number.POSITIVE_INFINITY: above every relevance score
      infinity == MaxRelevance + 1000
      ranked == rankLanguagesByRelevance(scores)
  IN IF snippet = <<>>
     THEN [language |-> Null, strategy |-> "relevance", relevance |-> 0,
           secondRelevance |-> 0]
     ELSE IF matches # {}
     THEN [language |-> deterministicMatch, strategy |-> "deterministic",
           relevance |-> infinity, secondRelevance |-> 0]
     ELSE [language |-> normalizeCodeLanguage(ranked[1].language),
           strategy |-> "relevance",
           relevance |-> ranked[1].relevance,
           secondRelevance |-> ranked[2].relevance]

\* ----- auto-correct policy

isShortSnippetNever(code) == FALSE

\* code.trim().length < 24
isShortSnippet(code) == Len(trim(code)) < 24

shouldAutoCorrectLanguageOneThreshold(currentLanguage, code, detection, aggressive, scores) ==
  LET normalizedCurrent == normalizeCodeLanguage(currentLanguage)
      currentRelevance == highlight(scores, normalizedCurrent)
  IN IF \/ normalizedCurrent = Null
        \/ detection.language = Null
        \/ normalizedCurrent = detection.language
     THEN FALSE
     ELSE IF detection.strategy = "deterministic" THEN TRUE
     ELSE IF ~aggressive /\ isShortSnippet(code) THEN FALSE
     ELSE /\ detection.relevance >= 2
          /\ detection.relevance - currentRelevance >= 1

shouldAutoCorrectLanguage(currentLanguage, code, detection, aggressive, scores) ==
  LET normalizedCurrent == normalizeCodeLanguage(currentLanguage)
      currentRelevance == highlight(scores, normalizedCurrent)
      margin == detection.relevance
                  - max(detection.secondRelevance, currentRelevance)
  IN IF \/ normalizedCurrent = Null
        \/ detection.language = Null
        \/ normalizedCurrent = detection.language
     THEN FALSE
     ELSE IF detection.strategy = "deterministic" THEN TRUE
     ELSE IF ~aggressive /\ isShortSnippet(code) THEN FALSE
     ELSE IF aggressive
     THEN /\ detection.relevance >= 2
          /\ detection.relevance - currentRelevance >= 1
     ELSE detection.relevance >= 4 /\ margin >= 2

\* ----- formatting

\* what formatSql / prettier.format does with the source: returns the
\* formatted text, or throws (an Error with a message, or another value)
FormatterOutcomes(source) ==
  {[returns |-> TRUE, formatted |-> f] :
     f \in {source, trim(source), trim(source) \o <<"\n">>}}
    \cup {[returns |-> FALSE, isError |-> TRUE, message |-> m] :
            m \in {"Unexpected token", ""}}
    \cup {[returns |-> FALSE, isError |-> FALSE, message |-> ""]}

formatCodeSnippetKeepsOutput(source, preferredLanguage, outcome, scores) ==
  LET language == normalizeCodeLanguage(preferredLanguage)
  IN [formatted |-> IF outcome.returns THEN outcome.formatted
                    ELSE trim(source) \o <<"\n">>,
      language |-> language,
      parser |-> IF language \in DOMAIN parserByLanguage
                 THEN parserByLanguage[language] ELSE "null",
      error |-> IF outcome.returns THEN "null"
                ELSE "Unable to format this code block."]

\* the error and the parser of a result are "null" for null
formatCodeSnippet(source, preferredLanguage, outcome, scores) ==
  LET sourceIsStrictJson == isStrictJsonSnippet(source)
      normalizedPreferred == normalizeCodeLanguage(preferredLanguage)
      detectedLanguage == detectCodeLanguageMeta(source, scores).language
      preferredIsJsonCompatible ==
        normalizedPreferred \in {<<"j", "s", "o", "n">>, <<"j", "a", "v", "a", "s", "c", "r", "i", "p", "t">>,
                                 <<"t", "y", "p", "e", "s", "c", "r", "i", "p", "t">>}
      language == IF sourceIsStrictJson /\ preferredIsJsonCompatible
                  THEN <<"j", "s", "o", "n">>
                  ELSE IF normalizedPreferred # Null THEN normalizedPreferred
                  ELSE detectedLanguage
      parser == IF language # Null /\ language \in DOMAIN parserByLanguage
                THEN parserByLanguage[language] ELSE "null"
  IN IF parser = "null"
     THEN [formatted |-> source, language |-> language, parser |-> "null",
           error |-> "No formatter available for this language yet."]
     ELSE IF outcome.returns
     THEN [formatted |-> outcome.formatted, language |-> language,
           parser |-> parser, error |-> "null"]
     ELSE [formatted |-> source, language |-> language, parser |-> parser,
           error |-> IF outcome.isError THEN outcome.message
                     ELSE IF parser = "sql"
                     THEN "Unable to format this SQL block."
                     ELSE "Unable to format this code block."]

\* ----- the code block's node view (components/editor/DatePicker.tsx,
\* CodeBlockNodeView)

\* node.textContent of the blocks
Snippets ==
  {<<>>,
   <<" ", "\n">>,
   <<"{", "\"", "a", "\"", ":", "1", "}">>,
   <<" ", "[", "1", ",", " ", "{", "\"", "b", "\"", ":", " ", "[", "t",
     "r", "u", "e", ",", " ", "n", "u", "l", "l", "]", "}", "]", " ">>,
   <<"{", "\"", "p", "u", "b", "l", "i", "c", " ", "c", "l", "a", "s", "s",
     "\"", ":", " ", "1", "}">>,
   <<"{", "a", ":", " ", "1", "}">>,
   <<"[", "1", ",", " ", "2">>,
   <<"S", "E", "L", "E", "C", "T", " ", "*", " ", "F", "R", "O", "M", " ",
     "u", "s", "e", "r", "s", " ", "W", "H", "E", "R", "E", " ", "i", "d",
     " ", "=", " ", "1", ";">>,
   <<"s", "e", "l", "e", "c", "t", " ", "1">>,
   <<"s", "e", "l", "e", "c", "t", " ", "*", " ", "f", "r", "o", "m", " ",
     "t", ";", " ", "p", "u", "b", "l", "i", "c", " ", "c", "l", "a", "s",
     "s", " ", "A", " ", "{", "}">>,
   <<"S", "y", "s", "t", "e", "m", ".", "o", "u", "t", ".", "p", "r", "i",
     "n", "t", "l", "n", "(", "\"", "h", "i", "\"", ")", ";">>,
   <<"i", "n", "t", " ", "x", " ", "=", " ", "1", ";", " ", "{", " ", "}">>,
   <<"i", "n", "t", " ", "x", " ", "=", " ", "1", ";">>,
   <<"c", "o", "n", "s", "t", " ", "x", " ", "=", " ", "1", ";">>,
   <<"f", "u", "n", "c", "t", "i", "o", "n", " ", "a", "d", "d", "(", "a",
     ",", " ", "b", ")", " ", "{", " ", "r", "e", "t", "u", "r", "n", " ",
     "a", " ", "+", " ", "b", ";", " ", "}">>}

\* node.attrs.language of the blocks: none, registered names, an alias
\* and a name no grammar is registered for
BlockLanguages ==
  {Null, <<"j", "a", "v", "a", "s", "c", "r", "i", "p", "t">>, <<"p", "y", "t", "h", "o", "n">>, <<"j", "s", "o", "n">>, <<"t", "s">>, <<"r", "u", "s", "t">>}

\* the grammars that score on the snippets; the others score 0
ScoringLanguages == {<<"j", "a", "v", "a", "s", "c", "r", "i", "p", "t">>, <<"p", "y", "t", "h", "o", "n">>}

RelevanceTables == [ScoringLanguages -> 0..MaxRelevance]

languageFromNode == normalizeCodeLanguage(blockLanguage)

\* shouldAutoCorrectLanguage was not called
InitCodeIdle ==
  /\ blockCode = <<>>
  /\ blockLanguage = Null
  /\ relevances = [l \in ScoringLanguages |-> 0]
  /\ relabelAggressiveRef = FALSE
  /\ detectionMemo = detectCodeLanguageMeta(<<>>, relevances)
  /\ effectPending = FALSE
  /\ relabel = [aggressive |-> FALSE, answer |-> "none"]
  /\ formatStatus = "idle"
  /\ formatResult = <<>>

\* the tables the formatted blocks are scored with
FormatTables ==
  {[l \in ScoringLanguages |-> 0],
   [l \in ScoringLanguages |->
      IF l = <<"p", "y", "t", "h", "o", "n">> THEN MaxRelevance ELSE 0]}

\* a code block is mounted; nothing scores on a blank text
InitCodeBlock(tables) ==
  /\ blockCode \in Snippets
  /\ blockLanguage \in BlockLanguages
  /\ relevances \in tables
  /\ trim(blockCode) = <<>> => relevances = [l \in ScoringLanguages |-> 0]
  /\ relabelAggressiveRef = FALSE
  /\ detectionMemo = detectCodeLanguageMeta(blockCode, relevances)
  /\ effectPending = TRUE
  /\ relabel = [aggressive |-> FALSE, answer |-> "none"]
  /\ formatStatus = "idle"
  /\ formatResult = <<>>

\* onInputCapture / onPasteCapture
OnInputCapture ==
  /\ ~relabelAggressiveRef
  /\ relabelAggressiveRef' = TRUE
  /\ UNCHANGED <<blockCode, blockLanguage, relevances, detectionMemo,
                 effectPending, relabel, formatStatus, formatResult>>
  /\ UNCHANGED <<noteVars, recoveryVars, menuVars, abbrevVars, tagVars,
                 appVars>>

\* the effect on [code, detectedLanguage, detectionMemo, languageFromNode]
RelabelEffect ==
  LET detectedLanguage == detectionMemo.language
      correct == shouldAutoCorrectLanguage(languageFromNode, blockCode,
                                           detectionMemo, relabelAggressiveRef,
                                           relevances)
  IN /\ effectPending
     /\ IF detectedLanguage = Null
        THEN UNCHANGED <<blockLanguage, relabelAggressiveRef, relabel>>
        ELSE /\ relabelAggressiveRef' = FALSE
             /\ IF languageFromNode # Null
                THEN /\ relabel' = [aggressive |-> relabelAggressiveRef,
                                     answer |-> IF correct THEN "yes"
                                                ELSE "no"]
                     /\ blockLanguage' = IF correct THEN detectedLanguage
                                         ELSE blockLanguage
                ELSE /\ relabel' = [aggressive |-> FALSE, answer |-> "none"]
                     /\ blockLanguage' = detectedLanguage
     /\ effectPending' = (normalizeCodeLanguage(blockLanguage')
                            # languageFromNode)
     /\ UNCHANGED <<blockCode, relevances, detectionMemo, formatStatus,
                    formatResult>>
     /\ UNCHANGED <<noteVars, recoveryVars, menuVars, abbrevVars, tagVars,
                 appVars>>

\* formatCode, with what the formatter does; a re-formatted text scores as
\* the text it came from
FormatCode(outcome) ==
  /\ formatStatus # "working"
  /\ IF trim(blockCode) = <<>>
     THEN /\ formatStatus' = "error"
          /\ UNCHANGED <<blockCode, blockLanguage, detectionMemo,
                         effectPending, formatResult>>
     ELSE \E code \in {blockCode} :
          \E result \in {formatCodeSnippet(code,
                            IF languageFromNode # Null THEN languageFromNode
                            ELSE detectionMemo.language,
                            outcome, relevances)} :
            /\ formatResult' = <<result>>
            /\ IF result.error \notin {"null", ""}
               THEN /\ formatStatus' = "error"
                    /\ UNCHANGED <<blockCode, blockLanguage, detectionMemo,
                                   effectPending>>
               ELSE /\ blockCode' = IF result.formatted # code
                                    THEN result.formatted ELSE code
                    /\ blockLanguage' =
                         IF /\ result.language # Null
                            /\ result.language # languageFromNode
                         THEN result.language ELSE blockLanguage
                    /\ formatStatus' = "success"
                    /\ detectionMemo' =
                         IF blockCode' = blockCode THEN detectionMemo
                         ELSE detectCodeLanguageMeta(blockCode', relevances)
                    /\ effectPending' = \/ effectPending
                                        \/ blockCode' # blockCode
                                        \/ blockLanguage' # blockLanguage
  /\ UNCHANGED <<relevances, relabelAggressiveRef, relabel>>
  /\ UNCHANGED <<noteVars, recoveryVars, menuVars, abbrevVars, tagVars,
                 appVars>>

\* the timeout of setFormatStatusTemporarily
FormatStatusTimeout ==
  /\ formatStatus \in {"error", "success"}
  /\ formatStatus' = "idle"
  /\ UNCHANGED <<blockCode, blockLanguage, relevances, relabelAggressiveRef,
                 detectionMemo, effectPending, relabel, formatResult>>
  /\ UNCHANGED <<noteVars, recoveryVars, menuVars, abbrevVars, tagVars,
                 appVars>>

NextCode ==
  \/ OnInputCapture
  \/ RelabelEffect

NextFormat ==
  \/ RelabelEffect
  \/ \E outcome \in FormatterOutcomes(blockCode) : FormatCode(outcome)
  \/ FormatStatusTimeout

\* ------------------------------------------- ensuring the user has a note
\* (lib/notes.ts: ensureUserHasNote; lib/notesQuery.ts: getLatestUserNoteId)
CallOrder == <<"c1", "c2", "c3">>     \* calls are named in the order made
Callers == {CallOrder[i] : i \in 1..Len(CallOrder)}
userId == "u"
ExistingIds == {"A", "B"}
NewIds == <<"N1", "N2", "N3">>
NoteDocs ==
  [id : {"A"}, ownerUid : {"u", "v"}, isDeleted : BOOLEAN]
    \cup [id : {"B"}, ownerUid : {"u"}, isDeleted : BOOLEAN]

\* the notes collection when the calls begin, newest updatedAt first
NoteCollections ==
  {<<>>} \cup {<<d>> : d \in NoteDocs}
         \cup {s \in NoteDocs \X NoteDocs : s[1].id # s[2].id}

ExcludeOptions == {"null", "A"}
PreferredOptions == {"null", "A", "B"}

NoPromise == [state |-> "none", noteId |-> "null", created |-> FALSE]
Pending == [state |-> "pending", noteId |-> "null", created |-> FALSE]
Fulfilled(id, created) == [state |-> "fulfilled", noteId |-> id, created |-> created]
Rejected == [state |-> "rejected", noteId |-> "null", created |-> FALSE]
NoCall == [pc |-> "idle", excludeNoteId |-> "null", preferredNoteId |-> "null", awaits |-> "null"]

Active(c) == ensureCalls[c].pc \notin {"idle", "resolved", "rejected"}
CreatedIds == {notesCollection[i].id : i \in 1..Len(notesCollection)} \ ExistingIds

\* a note counts as the user's when it exists, is theirs and is not in trash
isUserAccessibleNoteId(notes, uid, id) ==
  \E i \in 1..Len(notes) :
    /\ notes[i].id = id
    /\ notes[i].ownerUid = uid
    /\ notes[i].isDeleted # TRUE

\* the query orders the owner's notes by updatedAt and reads queryLimit of
\* them; the trash filter runs on what was read
findLatestByOrder(notes, ownerUid, excludeNoteId) ==
  LET queryLimit == IF excludeNoteId # "null" THEN 2 ELSE 1
      owned == SelectSeq(notes, LAMBDA d : d.ownerUid = ownerUid)
      docs == SubSeq(owned, 1, min(queryLimit, Len(owned)))
      candidates == SelectSeq(docs, LAMBDA d : /\ d.id # excludeNoteId
                                               /\ d.isDeleted # TRUE)
  IN  IF candidates = <<>> THEN "null" ELSE candidates[1].id

getLatestUserNoteId(notes, uid, excludeNoteId) ==
  findLatestByOrder(notes, uid, excludeNoteId)

\* the call's own request starts: the async function runs up to its first
\* await and the promise becomes the user's entry of the map
StartEnsure(c, excludeNoteId, preferredNoteId) ==
  /\ ensurePromise' = [ensurePromise EXCEPT ![c] = Pending]
  /\ ensureInFlight' = c
  /\ ensureCalls' = [ensureCalls EXCEPT ![c] =
       [pc |-> IF preferredNoteId # "null" /\ preferredNoteId # excludeNoteId
                 THEN "preferred" ELSE "latest",
        excludeNoteId |-> excludeNoteId,
        preferredNoteId |-> preferredNoteId,
        awaits |-> "null"]]

SettleEnsure(c, promise) ==
  /\ ensurePromise' = [ensurePromise EXCEPT ![c] = promise]
  /\ ensureCalls' = [ensureCalls EXCEPT ![c].pc = "returning"]

\* ensureUserHasNote(userId, {excludeNoteId, preferredNoteId}) is called
ensureUserHasNote(c, excludeNoteId, preferredNoteId) ==
  /\ ensureCalls[c].pc = "idle"
  /\ \A i \in 1..Len(CallOrder) :
       CallOrder[i] = c => \A j \in 1..(i - 1) : ensureCalls[CallOrder[j]].pc # "idle"
  /\ overlapping' = overlapping \cup {{c, d} : d \in {x \in Callers : Active(x)}}
  /\ IF ensureInFlight # "null"
       THEN /\ ensureCalls' = [ensureCalls EXCEPT ![c] =
                 [pc |-> "waiting",
                  excludeNoteId |-> excludeNoteId,
                  preferredNoteId |-> preferredNoteId,
                  awaits |-> ensureInFlight]]
            /\ UNCHANGED <<ensureInFlight, ensurePromise>>
       ELSE StartEnsure(c, excludeNoteId, preferredNoteId)
  /\ UNCHANGED <<notesCollection, noteVars, recoveryVars, menuVars, abbrevVars,
                 tagVars, codeVars, clearVars, trashVars>>

ExistingInFlightSettlesNoRecheck(c) ==
  /\ ensureCalls[c].pc = "waiting"
  /\ ensurePromise[ensureCalls[c].awaits].state \in {"fulfilled", "rejected"}
  /\ LET result == ensurePromise[ensureCalls[c].awaits]
         excludeNoteId == ensureCalls[c].excludeNoteId
     IN  IF result.state = "rejected"
           THEN /\ ensureCalls' = [ensureCalls EXCEPT ![c].pc = "rejected"]
                /\ UNCHANGED <<ensureInFlight, ensurePromise>>
           ELSE /\ ensureCalls' = [ensureCalls EXCEPT ![c].pc = "resolved"]
                /\ UNCHANGED <<ensureInFlight, ensurePromise>>
  /\ UNCHANGED <<notesCollection, overlapping, noteVars, recoveryVars, menuVars,
                 abbrevVars, tagVars, codeVars, clearVars, trashVars>>

\* the request the call waited for settles
ExistingInFlightSettles(c) ==
  /\ ensureCalls[c].pc = "waiting"
  /\ ensurePromise[ensureCalls[c].awaits].state \in {"fulfilled", "rejected"}
  /\ LET result == ensurePromise[ensureCalls[c].awaits]
         excludeNoteId == ensureCalls[c].excludeNoteId
     IN  IF result.state = "rejected"
           THEN /\ ensureCalls' = [ensureCalls EXCEPT ![c].pc = "rejected"]
                /\ UNCHANGED <<ensureInFlight, ensurePromise>>
           ELSE IF excludeNoteId = "null" \/ result.noteId # excludeNoteId
             THEN /\ ensureCalls' = [ensureCalls EXCEPT ![c].pc = "resolved"]
                  /\ UNCHANGED <<ensureInFlight, ensurePromise>>
             ELSE StartEnsure(c, excludeNoteId, ensureCalls[c].preferredNoteId)
  /\ UNCHANGED <<notesCollection, overlapping, noteVars, recoveryVars, menuVars,
                 abbrevVars, tagVars, codeVars, clearVars, trashVars>>

\* getDoc of the preferred note answers, or throws
PreferredChecked(c, threw) ==
  /\ ensureCalls[c].pc = "preferred"
  /\ LET preferredNoteId == ensureCalls[c].preferredNoteId
         preferredIsAccessible ==
           ~threw /\ isUserAccessibleNoteId(notesCollection, userId, preferredNoteId)
     IN  IF preferredIsAccessible
           THEN SettleEnsure(c, Fulfilled(preferredNoteId, FALSE))
           ELSE /\ ensureCalls' = [ensureCalls EXCEPT ![c].pc = "latest"]
                /\ UNCHANGED ensurePromise
  /\ UNCHANGED <<notesCollection, ensureInFlight, overlapping, noteVars,
                 recoveryVars, menuVars, abbrevVars, tagVars, codeVars, clearVars, trashVars>>

\* the latest-note query answers, or throws
LatestFound(c, threw) ==
  /\ ensureCalls[c].pc = "latest"
  /\ LET latestNoteId ==
           IF threw THEN "null"
           ELSE getLatestUserNoteId(notesCollection, userId, ensureCalls[c].excludeNoteId)
     IN  IF latestNoteId # "null"
           THEN SettleEnsure(c, Fulfilled(latestNoteId, FALSE))
           ELSE /\ ensureCalls' = [ensureCalls EXCEPT ![c].pc = "creating"]
                /\ UNCHANGED ensurePromise
  /\ UNCHANGED <<notesCollection, ensureInFlight, overlapping, noteVars,
                 recoveryVars, menuVars, abbrevVars, tagVars, codeVars, clearVars, trashVars>>

\* addDoc of the empty note succeeds
createEmptyNoteForUser(c) ==
  /\ ensureCalls[c].pc = "creating"
  /\ Cardinality(CreatedIds) < Len(NewIds)
  /\ LET createdNoteId == NewIds[Cardinality(CreatedIds) + 1]
     IN  /\ notesCollection' =
               <<[id |-> createdNoteId, ownerUid |-> userId, isDeleted |-> FALSE]>>
                 \o notesCollection
         /\ SettleEnsure(c, Fulfilled(createdNoteId, TRUE))
  /\ UNCHANGED <<ensureInFlight, overlapping, noteVars, recoveryVars, menuVars,
                 abbrevVars, tagVars, codeVars, clearVars, trashVars>>

\* addDoc of the empty note fails
CreateFails(c) ==
  /\ ensureCalls[c].pc = "creating"
  /\ SettleEnsure(c, Rejected)
  /\ UNCHANGED <<notesCollection, ensureInFlight, overlapping, noteVars,
                 recoveryVars, menuVars, abbrevVars, tagVars, codeVars, clearVars, trashVars>>

\* the call's own request has settled: the finally block, then the return
EnsureReturns(c) ==
  /\ ensureCalls[c].pc = "returning"
  /\ ensureInFlight' = IF ensureInFlight = c THEN "null" ELSE ensureInFlight
  /\ ensureCalls' = [ensureCalls EXCEPT ![c].pc =
       IF ensurePromise[c].state = "fulfilled" THEN "resolved" ELSE "rejected"]
  /\ UNCHANGED <<notesCollection, ensurePromise, overlapping, noteVars,
                 recoveryVars, menuVars, abbrevVars, tagVars, codeVars, clearVars, trashVars>>

\* what a settled call returned to its caller
EnsureResult(c) ==
  IF ensureCalls[c].awaits # "null"
    THEN ensurePromise[ensureCalls[c].awaits] ELSE ensurePromise[c]

InitEnsureIdle ==
  /\ notesCollection = <<>>
  /\ ensureInFlight = "null"
  /\ ensurePromise = [c \in Callers |-> NoPromise]
  /\ ensureCalls = [c \in Callers |-> NoCall]
  /\ overlapping = {}

InitEnsure ==
  /\ notesCollection \in NoteCollections
  /\ ensureInFlight = "null"
  /\ ensurePromise = [c \in Callers |-> NoPromise]
  /\ ensureCalls = [c \in Callers |-> NoCall]
  /\ overlapping = {}

\* ------------------------------------------------ clearing completed tasks
\* (app/notes/[id]/NoteClient.tsx). A node is its type, its attributes
\* (checked; label stands for the rest and for the text) and its content.
\* A node without a content array is one with the empty array: the two
\* differ for a task list only, and the schema gives a task list an item.
JsonNode(type, checked, label, content) == [type |-> type, checked |-> checked, label |-> label, content |-> content]
NullNode == JsonNode("null", FALSE, "", <<>>)
ParagraphNode(label) == JsonNode("paragraph", FALSE, label, <<>>)
TaskItemNode(label, checked, blocks) == JsonNode("taskItem", checked, label, <<ParagraphNode(label)>> \o blocks)
TaskListNode(taskItems) == JsonNode("taskList", FALSE, "", taskItems)
BlockquoteNode(blocks) == JsonNode("blockquote", FALSE, "", blocks)
DocNode(blocks) == JsonNode("doc", FALSE, "", blocks)

\* documents the editor's schema admits
SubTaskLists ==
  {TaskListNode(<<TaskItemNode("s", c, <<>>)>>) : c \in BOOLEAN}
    \cup {TaskListNode(<<TaskItemNode("s", c, <<>>), TaskItemNode("t", d, <<>>)>>) : c \in BOOLEAN, d \in BOOLEAN}
TaskItems(label) ==
  {TaskItemNode(label, c, <<>>) : c \in BOOLEAN}
    \cup {TaskItemNode(label, c, <<l>>) : c \in BOOLEAN, l \in SubTaskLists}
TaskLists ==
  {TaskListNode(<<a>>) : a \in TaskItems("a")}
    \cup {TaskListNode(<<a, b>>) : a \in TaskItems("a"), b \in {TaskItemNode("b", c, <<>>) : c \in BOOLEAN}}
Docs ==
  {DocNode(<<ParagraphNode("p")>>)}
    \cup {DocNode(<<l>>) : l \in TaskLists}
    \cup {DocNode(<<ParagraphNode("p"), l>>) : l \in TaskLists}
    \cup {DocNode(<<l, ParagraphNode("p")>>) : l \in TaskLists}
    \cup {DocNode(<<BlockquoteNode(<<l>>)>>) : l \in TaskLists}
    \cup {DocNode(<<l, TaskListNode(<<TaskItemNode("c", c, <<>>)>>)>>) : l \in TaskLists, c \in BOOLEAN}

RECURSIVE Sum(_)
Sum(numbers) == IF numbers = <<>> THEN 0 ELSE numbers[1] + Sum(Tail(numbers))

RECURSIVE stripCompletedTasksFromNode(_)
stripCompletedTasksFromNode(node) ==
  LET children == node.content
      results == [i \in 1..Len(children) |->
                    IF children[i].type = "taskItem" /\ children[i].checked = TRUE
                      THEN [node |-> NullNode, removedCount |-> 1]
                      ELSE stripCompletedTasksFromNode(children[i])]
      removedCount == Sum([i \in 1..Len(children) |-> results[i].removedCount])
      kept == SelectSeq(results, LAMBDA r : r.node # NullNode)
      nextChildren == [i \in 1..Len(kept) |-> kept[i].node]
      changed == \E i \in 1..Len(children) :
                   \/ results[i].node = NullNode
                   \/ results[i].node # children[i]
  IN  IF node.type = "taskList" /\ Len(nextChildren) = 0
        THEN [node |-> NullNode, removedCount |-> removedCount]
        ELSE IF ~changed
          THEN [node |-> node, removedCount |-> removedCount]
          ELSE [node |-> [node EXCEPT !.content = nextChildren],
                removedCount |-> removedCount]

stripCompletedTasksFromDoc(json) ==
  LET result == stripCompletedTasksFromNode(json)
  IN  IF result.node = NullNode \/ result.node.type # "doc"
        THEN [doc |-> DocNode(<<>>), removedCount |-> result.removedCount]
        ELSE [doc |-> result.node, removedCount |-> result.removedCount]

InitClearIdle ==
  /\ taskDoc = DocNode(<<ParagraphNode("p")>>)
  /\ isHeaderActionsMenuOpen = FALSE

InitClear ==
  /\ taskDoc \in Docs
  /\ isHeaderActionsMenuOpen = FALSE

\* ------------------------------------------------------- trash cleanup
\* (app/notes/[id]/NoteClient.tsx). Time is counted in days; deletedAt is
\* the empty set when the field is absent, else the set of its one value.
retentionDays == 30
BatchSize == 500
TrashNoteIds == {"A", "B"}
Invocations == {"i1", "i2"}
NoteDoc(deleted, at) == [exists |-> TRUE, isDeleted |-> deleted, deletedAt |-> at]
NoDoc == [exists |-> FALSE, isDeleted |-> FALSE, deletedAt |-> {}]
NoCleanup == [pc |-> "idle", expiredDocs |-> <<>>, index |-> 0]

\* the filter of the cleanup: in trash, with a deletedAt at or before the cutoff
IsExpired(data, cutoff) ==
  /\ data.isDeleted = TRUE
  /\ \E deletedAt \in data.deletedAt : deletedAt <= cutoff

Ids(S) == CHOOSE s \in [1..Cardinality(S) -> S] : \A i, j \in 1..Cardinality(S) : i # j => s[i] # s[j]

\* the user restores a note from trash
restoreNoteFromTrash(n) ==
  /\ trashDocs[n].exists
  /\ trashDocs[n].isDeleted
  /\ trashDocs' = [trashDocs EXCEPT ![n] = NoteDoc(FALSE, {})]
  /\ UNCHANGED <<now, trashCleanupRunningRef, cleanups, noteVars, recoveryVars,
                 menuVars, abbrevVars, tagVars, codeVars, ensureVars, clearVars>>

\* the user moves a note to trash
moveNoteToTrash(n) ==
  /\ trashDocs[n].exists
  /\ ~trashDocs[n].isDeleted
  /\ trashDocs' = [trashDocs EXCEPT ![n] = NoteDoc(TRUE, {now})]
  /\ UNCHANGED <<now, trashCleanupRunningRef, cleanups, noteVars, recoveryVars,
                 menuVars, abbrevVars, tagVars, codeVars, ensureVars, clearVars>>

\* the trash list opens: the cleanup is called and runs up to its getDocs
cleanupExpiredTrashNotes(i) ==
  /\ cleanups[i].pc = "idle"
  /\ ~trashCleanupRunningRef
  /\ trashCleanupRunningRef' = TRUE
  /\ cleanups' = [cleanups EXCEPT ![i].pc = "reading"]
  /\ UNCHANGED <<trashDocs, now, noteVars, recoveryVars, menuVars, abbrevVars,
                 tagVars, codeVars, ensureVars, clearVars>>

\* getDocs answers: the expired notes are picked from what was read
CleanupReads(i) ==
  /\ cleanups[i].pc = "reading"
  /\ LET cutoff == now - retentionDays
         expiredDocs == Ids({n \in TrashNoteIds : /\ trashDocs[n].exists
                                                  /\ IsExpired(trashDocs[n], cutoff)})
     IN  IF Len(expiredDocs) = 0
           THEN /\ cleanups' = [cleanups EXCEPT ![i] = NoCleanup]
                /\ trashCleanupRunningRef' = FALSE
           ELSE /\ cleanups' = [cleanups EXCEPT ![i] =
                     [pc |-> "committing", expiredDocs |-> expiredDocs, index |-> 0]]
                /\ UNCHANGED trashCleanupRunningRef
  /\ UNCHANGED <<trashDocs, now, noteVars, recoveryVars, menuVars, abbrevVars,
                 tagVars, codeVars, ensureVars, clearVars>>

\* a batch of deletes commits; after the last one the finally block runs
BatchCommits(i) ==
  /\ cleanups[i].pc = "committing"
  /\ LET expiredDocs == cleanups[i].expiredDocs
         index == cleanups[i].index
         batch == {expiredDocs[k] : k \in (index + 1)..min(index + BatchSize, Len(expiredDocs))}
     IN  /\ trashDocs' = [n \in TrashNoteIds |-> IF n \in batch THEN NoDoc ELSE trashDocs[n]]
         /\ IF index + BatchSize < Len(expiredDocs)
              THEN /\ cleanups' = [cleanups EXCEPT ![i].index = index + BatchSize]
                   /\ UNCHANGED trashCleanupRunningRef
              ELSE /\ cleanups' = [cleanups EXCEPT ![i] = NoCleanup]
                   /\ trashCleanupRunningRef' = FALSE
  /\ UNCHANGED <<now, noteVars, recoveryVars, menuVars, abbrevVars, tagVars,
                 codeVars, ensureVars, clearVars>>

\* getDocs or a commit fails: the catch logs, the finally block runs
CleanupFails(i) ==
  /\ cleanups[i].pc \in {"reading", "committing"}
  /\ cleanups' = [cleanups EXCEPT ![i] = NoCleanup]
  /\ trashCleanupRunningRef' = FALSE
  /\ UNCHANGED <<trashDocs, now, noteVars, recoveryVars, menuVars, abbrevVars,
                 tagVars, codeVars, ensureVars, clearVars>>

InitTrashIdle ==
  /\ trashDocs = [n \in TrashNoteIds |-> NoteDoc(FALSE, {})]
  /\ now = 2 * retentionDays
  /\ trashCleanupRunningRef = FALSE
  /\ cleanups = [i \in Invocations |-> NoCleanup]

InitTrash ==
  /\ now \in {retentionDays, 2 * retentionDays}
  /\ trashDocs \in [TrashNoteIds -> {NoteDoc(FALSE, {}), NoteDoc(TRUE, {0}), NoteDoc(TRUE, {retentionDays}), NoteDoc(TRUE, {})}]
  /\ trashCleanupRunningRef = FALSE
  /\ cleanups = [i \in Invocations |-> NoCleanup]

InitAppIdle ==
  /\ InitEnsureIdle
  /\ InitClearIdle
  /\ InitTrashIdle

\* ------------------------------------------------------------------ Init
\* the note client after construction
InitNoteClient ==
  /\ noteId = "A"
  /\ ready = FALSE
  /\ syncStatus = "loading"
  /\ title = 0
  /\ isDeleted = FALSE
  /\ sidebarMode = "notes"
  /\ hasHydratedContent = FALSE
  /\ lastSubmittedContent = {}
  /\ changeVersion = 0
  /\ savedVersion = 0
  /\ contentSaveTimeoutRef = "null"
  /\ titleSaveTimeoutRef = "null"
  /\ contentTimers = {}
  /\ titleTimers = {}
  /\ inflight = {}
  /\ editorContent = 0
  /\ selection = <<1, 1>>
  /\ isFocused = FALSE
  /\ store = [n \in Notes |-> [content |-> 0, title |-> 0, deleted |-> FALSE]]
  /\ unsavedContent = {}
  /\ unsavedTitle = {}
  /\ switches = 0
  /\ edits = 0
  /\ missing = {}
  /\ listening = TRUE
  /\ recovering = FALSE

Init ==
  /\ InitNoteClient
  /\ InitCommandMenu("tulis")
  /\ InitAbbrevIdle
  /\ InitTagIdle
  /\ InitCodeIdle
  /\ InitAppIdle

\* ------------------------------------------------------- history records
Edit(note, payload, version) ==
  [noteId |-> note, payload |-> payload, version |-> version]

\* a stored write settles the pending edit it carries
Settle(pending, w) == pending \ {Edit(w.noteId, w.payload, w.version)}

\* --------------------------------------------------------------- actions

\* cleanup of the editor 'update' effect: it is re-run whenever isReadOnly,
\* noteId (through saveContentNow and scheduleContentSave) or user changes
ContentEffectCleanup(rerun) ==
  IF rerun THEN clearTimeout(contentTimers, contentSaveTimeoutRef)
  ELSE contentTimers

\* scheduleContentSave / scheduleTitleSave: cancel the timer of the ref and
\* arm a new one that closes over the payload and over this render's save
Schedule(timers, ref, t) ==
  {[x EXCEPT !.held = FALSE] : x \in clearTimeout(timers, ref)} \cup {t}

Timer(payload, version) ==
  [noteId |-> noteId, payload |-> payload, version |-> version,
   readOnly |-> isReadOnly, held |-> TRUE]

\* editor.on('update', handler): a local change of the document body
EditorUpdateHandler(c) ==
  /\ ready
  /\ ~isReadOnly
  /\ c # editorContent
  /\ edits < MaxEdits
  /\ edits' = edits + 1
  /\ editorContent' = c
  /\ selection' = EndOfDoc(c)
  /\ changeVersion' = markDirty(changeVersion)
  /\ syncStatus' = "syncing"
  /\ LET t == Timer(c, markDirty(changeVersion))
     IN /\ contentTimers' = Schedule(contentTimers, contentSaveTimeoutRef, t)
        /\ contentSaveTimeoutRef' = "handle"
  /\ unsavedContent' = {Edit(noteId, c, changeVersion')}
  /\ UNCHANGED <<noteId, ready, title, isDeleted, sidebarMode,
                 hasHydratedContent, lastSubmittedContent, savedVersion,
                 titleSaveTimeoutRef, titleTimers, inflight, isFocused,
                 store, unsavedTitle,
                 switches>>

EditorUpdate(c) ==
  /\ EditorUpdateHandler(c)
  /\ UNCHANGED <<recoveryVars, extensionVars>>

\* the button of the header actions menu
ToggleHeaderActionsMenu ==
  /\ isHeaderActionsMenuOpen' = ~isHeaderActionsMenuOpen
  /\ UNCHANGED <<taskDoc, noteVars, recoveryVars, menuVars, abbrevVars, tagVars,
                 codeVars, ensureVars, trashVars>>

\* "Clear completed tasks" of the header actions menu; setContent with
\* emitUpdate runs the editor's update handler on the new document
clearCompletedTasks ==
  /\ ready
  /\ ~isReadOnly
  /\ isHeaderActionsMenuOpen
  /\ isHeaderActionsMenuOpen' = FALSE
  /\ \E stripped \in {stripCompletedTasksFromDoc(taskDoc)} :
       IF stripped.removedCount = 0
         THEN UNCHANGED <<taskDoc, noteVars>>
         ELSE /\ taskDoc' = stripped.doc
              /\ \E c \in Contents : EditorUpdateHandler(c)
  /\ UNCHANGED <<recoveryVars, menuVars, abbrevVars, tagVars, codeVars,
                 ensureVars, trashVars>>

\* title input onChange
TitleChange(value) ==
  /\ ~isReadOnly
  /\ value # title
  /\ edits < MaxEdits
  /\ edits' = edits + 1
  /\ title' = value
  /\ changeVersion' = markDirty(changeVersion)
  /\ syncStatus' = "syncing"
  /\ LET t == Timer(value, markDirty(changeVersion))
     IN /\ titleTimers' = Schedule(titleTimers, titleSaveTimeoutRef, t)
        /\ titleSaveTimeoutRef' = "handle"
  /\ unsavedTitle' = {Edit(noteId, value, changeVersion')}
  /\ UNCHANGED <<noteId, ready, isDeleted, sidebarMode, hasHydratedContent,
                 lastSubmittedContent, savedVersion, contentSaveTimeoutRef,
                 contentTimers, inflight, editorContent, selection,
                 isFocused, store, unsavedContent,
                 switches>>
  /\ UNCHANGED <<recoveryVars, extensionVars>>

Write(field, t) ==
  [field |-> field, noteId |-> t.noteId, payload |-> t.payload,
   version |-> t.version]

\* the 800ms timer fires: saveContentNow(payload) up to the await
ContentTimerFires(t) ==
  /\ t \in contentTimers
  /\ Cardinality(inflight) < MaxInflight
  /\ contentTimers' = contentTimers \ {t}
  /\ IF t.readOnly
     THEN UNCHANGED <<lastSubmittedContent, inflight>>
     ELSE /\ lastSubmittedContent' = {t.payload}
          /\ inflight' = inflight \cup {Write("content", t)}
  /\ UNCHANGED <<noteId, ready, syncStatus, title, isDeleted, sidebarMode,
                 hasHydratedContent, changeVersion, savedVersion,
                 contentSaveTimeoutRef, titleSaveTimeoutRef, titleTimers,
                 editorContent, selection, isFocused, store,
                 unsavedContent, unsavedTitle,
                 switches, edits>>
  /\ UNCHANGED <<recoveryVars, extensionVars>>

\* the 600ms timer fires: saveTitleNow(payload) up to the await
TitleTimerFires(t) ==
  /\ t \in titleTimers
  /\ Cardinality(inflight) < MaxInflight
  /\ titleTimers' = titleTimers \ {t}
  /\ IF t.readOnly
     THEN UNCHANGED inflight
     ELSE inflight' = inflight \cup {Write("title", t)}
  /\ UNCHANGED <<noteId, ready, syncStatus, title, isDeleted, sidebarMode,
                 hasHydratedContent, lastSubmittedContent, changeVersion,
                 savedVersion, contentSaveTimeoutRef, titleSaveTimeoutRef,
                 contentTimers, editorContent, selection, isFocused, store,
                 unsavedContent, unsavedTitle,
                 switches, edits>>
  /\ UNCHANGED <<recoveryVars, extensionVars>>

\* updateDoc resolves (the document exists): the store holds the payload,
\* then markSaved(version)
WriteSucceeds(w) ==
  /\ w \in inflight
  /\ w.noteId \notin missing
  /\ inflight' = inflight \ {w}
  /\ store' = [store EXCEPT ![w.noteId] =
                 IF w.field = "content"
                 THEN [@ EXCEPT !.content = w.payload]
                 ELSE [@ EXCEPT !.title = w.payload]]
  /\ savedVersion' = markSavedVersion(w.version, savedVersion)
  /\ syncStatus' = markSavedStatus(savedVersion', changeVersion)
  /\ unsavedContent' =
       IF w.field = "content" THEN Settle(unsavedContent, w)
       ELSE unsavedContent
  /\ unsavedTitle' =
       IF w.field = "title" THEN Settle(unsavedTitle, w) ELSE unsavedTitle
  /\ UNCHANGED <<noteId, ready, title, isDeleted, sidebarMode,
                 hasHydratedContent, lastSubmittedContent, changeVersion,
                 contentSaveTimeoutRef, titleSaveTimeoutRef, contentTimers,
                 titleTimers, editorContent, selection, isFocused,
                 switches, edits>>
  /\ UNCHANGED <<recoveryVars, extensionVars>>

\* a catch block that re-arms the save of the failed payload
WriteFailsRetry(w) ==
  LET t == [noteId |-> w.noteId, payload |-> w.payload,
            version |-> w.version, readOnly |-> FALSE, held |-> TRUE]
  IN
  /\ w \in inflight
  /\ inflight' = inflight \ {w}
  /\ syncStatus' = "error"
  /\ IF w.field = "content"
     THEN /\ contentTimers' = {[x EXCEPT !.held = FALSE] : x \in contentTimers}
                               \cup {t}
          /\ contentSaveTimeoutRef' = "handle"
          /\ UNCHANGED <<titleTimers, titleSaveTimeoutRef>>
     ELSE /\ titleTimers' = {[x EXCEPT !.held = FALSE] : x \in titleTimers}
                             \cup {t}
          /\ titleSaveTimeoutRef' = "handle"
          /\ UNCHANGED <<contentTimers, contentSaveTimeoutRef>>
  /\ UNCHANGED <<noteId, ready, title, isDeleted, sidebarMode,
                 hasHydratedContent, lastSubmittedContent, changeVersion,
                 savedVersion, editorContent, selection, isFocused, store,
                 unsavedContent, unsavedTitle, switches, edits>>
  /\ UNCHANGED <<recoveryVars, extensionVars>>

\* updateDoc rejects: the catch block
WriteFails(w) ==
  /\ w \in inflight
  /\ inflight' = inflight \ {w}
  /\ syncStatus' = "error"
  /\ UNCHANGED <<noteId, ready, title, isDeleted, sidebarMode,
                 hasHydratedContent, lastSubmittedContent, changeVersion,
                 savedVersion, contentSaveTimeoutRef, titleSaveTimeoutRef,
                 contentTimers, titleTimers, editorContent, selection,
                 isFocused, store, unsavedContent, unsavedTitle,
                 switches, edits>>
  /\ UNCHANGED <<recoveryVars, extensionVars>>

\* a handler that keeps the local title while a local edit is pending
OnSnapshotKeepsPendingTitle(newContent, newTitle) ==
  LET deleted == store[noteId].deleted
      isInitialHydration == ~hasHydratedContent
      applies == AppliesRemoteContent(newContent, editorContent,
                   hasHydratedContent, lastSubmittedContent,
                   changeVersion, savedVersion)
      maxPos == DocSize(newContent)
  IN
  /\ listening
  /\ noteId \notin missing
  /\ newContent \in VisibleContents(noteId)
  /\ newTitle \in VisibleTitles(noteId)
  /\ title' = IF changeVersion > savedVersion THEN title ELSE newTitle
  /\ isDeleted' = deleted
  /\ sidebarMode' = IF deleted THEN "trash" ELSE sidebarMode
  /\ IF applies
     THEN /\ editorContent' = newContent
          /\ selection' =
               IF isFocused
               THEN <<ClampPos(selection[1], maxPos),
                      ClampPos(selection[2], maxPos)>>
               ELSE EndOfDoc(newContent)
     ELSE UNCHANGED <<editorContent, selection>>
  /\ hasHydratedContent' = TRUE
  /\ ready' = TRUE
  /\ syncStatus' =
       IF changeVersion = savedVersion THEN "synced" ELSE syncStatus
  /\ contentTimers' =
       ContentEffectCleanup(IsReadOnly(isDeleted', sidebarMode') # isReadOnly)
  /\ UNCHANGED <<noteId, lastSubmittedContent, changeVersion, savedVersion,
                 contentSaveTimeoutRef, titleSaveTimeoutRef, titleTimers,
                 inflight, isFocused, store, unsavedContent, unsavedTitle,
                 switches, edits>>
  /\ UNCHANGED <<recoveryVars, extensionVars>>

\* onSnapshot(noteRef, ...) delivers an existing document (snapshot.exists())
OnSnapshot(newContent, newTitle) ==
  LET deleted == store[noteId].deleted
      isInitialHydration == ~hasHydratedContent
      applies == AppliesRemoteContent(newContent, editorContent,
                   hasHydratedContent, lastSubmittedContent,
                   changeVersion, savedVersion)
      maxPos == DocSize(newContent)
  IN
  /\ listening
  /\ noteId \notin missing
  /\ newContent \in VisibleContents(noteId)
  /\ newTitle \in VisibleTitles(noteId)
  /\ title' = newTitle
  /\ isDeleted' = deleted
  /\ sidebarMode' = IF deleted THEN "trash" ELSE sidebarMode
  /\ IF applies
     THEN /\ editorContent' = newContent
          /\ selection' =
               IF isFocused
               THEN <<ClampPos(selection[1], maxPos),
                      ClampPos(selection[2], maxPos)>>
               ELSE EndOfDoc(newContent)
     ELSE UNCHANGED <<editorContent, selection>>
  /\ hasHydratedContent' = TRUE
  /\ ready' = TRUE
  /\ syncStatus' =
       IF changeVersion = savedVersion THEN "synced" ELSE syncStatus
  /\ contentTimers' =
       ContentEffectCleanup(IsReadOnly(isDeleted', sidebarMode') # isReadOnly)
  /\ UNCHANGED <<noteId, lastSubmittedContent, changeVersion, savedVersion,
                 contentSaveTimeoutRef, titleSaveTimeoutRef, titleTimers,
                 inflight, isFocused, store, unsavedContent, unsavedTitle,
                 switches, edits>>
  /\ UNCHANGED <<recoveryVars, extensionVars>>

\* a route change that leaves the refs of the previous document in place
RouteChangeKeepsRefs(n) ==
  /\ n \in Notes
  /\ n # noteId
  /\ switches < MaxSwitches
  /\ switches' = switches + 1
  /\ noteId' = n
  /\ syncStatus' = "loading"
  /\ listening' = TRUE
  /\ contentTimers' = ContentEffectCleanup(TRUE)
  /\ unsavedContent' = {}
  /\ unsavedTitle' = {}
  /\ UNCHANGED <<ready, title, isDeleted, sidebarMode,
                 hasHydratedContent, lastSubmittedContent, changeVersion,
                 savedVersion,
                 contentSaveTimeoutRef, titleSaveTimeoutRef, titleTimers,
                 inflight, editorContent, selection, isFocused, store, edits>>
  /\ UNCHANGED extensionVars

\* the route parameter changes: effects keyed on noteId are cleaned up and
\* re-run (status 'loading', refs reset, new subscription)
RouteChange(n) ==
  /\ n \in Notes
  /\ n # noteId
  /\ switches < MaxSwitches
  /\ switches' = switches + 1
  /\ noteId' = n
  /\ syncStatus' = "loading"
  /\ hasHydratedContent' = FALSE
  /\ lastSubmittedContent' = {}
  /\ changeVersion' = 0
  /\ savedVersion' = 0
  /\ listening' = TRUE
  /\ contentTimers' = ContentEffectCleanup(TRUE)
  /\ unsavedContent' = {}
  /\ unsavedTitle' = {}
  /\ UNCHANGED <<ready, title, isDeleted, sidebarMode,
                 contentSaveTimeoutRef, titleSaveTimeoutRef, titleTimers,
                 inflight, editorContent, selection, isFocused, store, edits>>
  /\ UNCHANGED extensionVars

\* the user navigates to another note
SwitchNote(n) ==
  /\ RouteChange(n)
  /\ UNCHANGED <<missing, recovering>>

\* redirectToAccessibleNote up to the await: one recovery at a time
redirectToAccessibleNote == recovering' = TRUE

\* a handler of the missing document that goes on as for an existing one
OnSnapshotMissingFallsThrough ==
  /\ listening
  /\ noteId \in missing
  /\ redirectToAccessibleNote
  /\ title' = 0
  /\ hasHydratedContent' = TRUE
  /\ UNCHANGED <<noteId, ready, syncStatus, isDeleted, sidebarMode,
                 lastSubmittedContent, changeVersion,
                 savedVersion, contentSaveTimeoutRef, titleSaveTimeoutRef,
                 contentTimers, titleTimers, inflight, editorContent,
                 selection, isFocused, store, unsavedContent, unsavedTitle,
                 switches, edits>>
  /\ UNCHANGED <<missing, listening, extensionVars>>

\* onSnapshot delivers a snapshot with !snapshot.exists()
OnSnapshotMissing ==
  /\ listening
  /\ noteId \in missing
  /\ redirectToAccessibleNote
  /\ UNCHANGED <<noteVars, missing, listening, extensionVars>>

\* error codes of a failed subscription
ErrorCodes == {"permission-denied", "not-found", "unavailable"}

\* the subscription fails: the error callback; the listener is closed
OnSnapshotError(code) ==
  /\ listening
  /\ listening' = FALSE
  /\ IF code \in {"permission-denied", "not-found"}
     THEN redirectToAccessibleNote
     ELSE UNCHANGED recovering
  /\ UNCHANGED <<noteVars, missing, extensionVars>>

\* ensureUserHasNote resolves with another note: router.replace to it, then
\* the ref is released
RecoveryResolves(n) ==
  /\ recovering
  /\ n \notin missing
  /\ RouteChange(n)
  /\ recovering' = FALSE
  /\ UNCHANGED missing

\* ensureUserHasNote rejects: the error is logged, the ref is released
RecoveryFails ==
  /\ recovering
  /\ recovering' = FALSE
  /\ UNCHANGED <<noteVars, missing, listening, extensionVars>>

\* the document is removed from the store for good (or access is revoked)
RemoteDelete(n) ==
  /\ n \notin missing
  /\ missing' = missing \cup {n}
  /\ UNCHANGED <<noteVars, listening, recovering, extensionVars>>

\* the drawer switches between the notes list and the trash list
SetSidebarMode(mode) ==
  /\ mode # sidebarMode
  /\ sidebarMode' = mode
  /\ contentTimers' =
       ContentEffectCleanup(IsReadOnly(isDeleted, mode) # isReadOnly)
  /\ UNCHANGED <<noteId, ready, syncStatus, title, isDeleted,
                 hasHydratedContent, lastSubmittedContent, changeVersion,
                 savedVersion, contentSaveTimeoutRef, titleSaveTimeoutRef,
                 titleTimers, inflight, editorContent, selection, isFocused,
                 store, unsavedContent, unsavedTitle,
                 switches, edits>>
  /\ UNCHANGED <<recoveryVars, extensionVars>>

\* the user moves the caret or the selection, or focuses/blurs the editor
SelectionChange(from, to, focused) ==
  /\ ready
  /\ from <= to
  /\ <<from, to, focused>> # <<selection[1], selection[2], isFocused>>
  /\ selection' = <<from, to>>
  /\ isFocused' = focused
  /\ UNCHANGED <<noteId, ready, syncStatus, title, isDeleted, sidebarMode,
                 hasHydratedContent, lastSubmittedContent, changeVersion,
                 savedVersion, contentSaveTimeoutRef, titleSaveTimeoutRef,
                 contentTimers, titleTimers, inflight, editorContent, store,
                 unsavedContent, unsavedTitle,
                 switches, edits>>
  /\ UNCHANGED <<recoveryVars, extensionVars>>

\* another client writes a document of the store
RemoteWrite(n, c, t, d) ==
  /\ [content |-> c, title |-> t, deleted |-> d] # store[n]
  /\ store' = [store EXCEPT ![n] = [content |-> c, title |-> t, deleted |-> d]]
  /\ UNCHANGED <<noteId, ready, syncStatus, title, isDeleted, sidebarMode,
                 hasHydratedContent, lastSubmittedContent, changeVersion,
                 savedVersion, contentSaveTimeoutRef, titleSaveTimeoutRef,
                 contentTimers, titleTimers, inflight, editorContent,
                 selection, isFocused, unsavedContent, unsavedTitle,
                 switches, edits>>
  /\ UNCHANGED <<recoveryVars, extensionVars>>

\* the steps of the save protocol of the open note
Protocol ==
  \/ \E c \in Contents : EditorUpdate(c)
  \/ \E value \in Titles : TitleChange(value)
  \/ \E t \in contentTimers : ContentTimerFires(t)
  \/ \E t \in titleTimers : TitleTimerFires(t)
  \/ \E w \in inflight : WriteSucceeds(w)
  \/ \E w \in inflight : WriteFails(w)
  \/ \E c \in Contents, t \in Titles : OnSnapshot(c, t)

\* the protocol under route changes, with another client editing the body
\* of the open note
Next ==
  \/ Protocol
  \/ \E n \in Notes : SwitchNote(n)
  \/ \E c \in Contents :
       RemoteWrite(noteId, c, store[noteId].title, store[noteId].deleted)

Spec == Init /\ [][Next]_vars

\* the protocol under route changes alone: the store changes only by this
\* client's writes
NextSwitch ==
  \/ Protocol
  \/ \E n \in Notes : SwitchNote(n)

SpecSwitch == Init /\ [][NextSwitch]_vars

\* the protocol on one open note, with caret moves and another client
\* editing the body of the note
NextNote ==
  \/ Protocol
  \/ \E from \in CursorPositions(editorContent) :
       \E to \in CursorPositions(editorContent) :
         \E focused \in BOOLEAN : SelectionChange(from, to, focused)
  \/ \E c \in Contents :
       RemoteWrite(noteId, c, store[noteId].title, store[noteId].deleted)

SpecNote == Init /\ [][NextNote]_vars

\* the protocol on one open note, with the trash view and another client
\* changing body, title and trash flag of the note
NextTrash ==
  \/ Protocol
  \/ \E mode \in {"notes", "trash"} : SetSidebarMode(mode)
  \/ \E c \in Contents, t \in Titles, d \in BOOLEAN :
       RemoteWrite(noteId, c, t, d)

SpecTrash == Init /\ [][NextTrash]_vars

\* bodies another client writes while this client only moves its selection
RestoreContents == 0..MaxRestore

\* snapshots of another client's bodies reach a client that does not edit
NextRestore ==
  \/ \E c \in RestoreContents, t \in Titles : OnSnapshot(c, t)
  \/ \E from \in CursorPositions(editorContent) :
       \E to \in CursorPositions(editorContent) :
         \E focused \in BOOLEAN : SelectionChange(from, to, focused)
  \/ \E c \in RestoreContents :
       RemoteWrite(noteId, c, store[noteId].title, store[noteId].deleted)

SpecRestore == Init /\ [][NextRestore]_vars

\* the protocol on a note that can disappear from the store, with the
\* recovery redirect
NextRecovery ==
  \/ Protocol
  \/ \E n \in Notes : RemoteDelete(n)
  \/ OnSnapshotMissing
  \/ \E code \in ErrorCodes : OnSnapshotError(code)
  \/ \E n \in Notes : RecoveryResolves(n)
  \/ RecoveryFails

SpecRecovery == Init /\ [][NextRecovery]_vars

\* the slash menu of the editor
InitMenu ==
  /\ InitNoteClient
  /\ InitCommandMenu("tulis")
  /\ InitAbbrevIdle
  /\ InitTagIdle
  /\ InitCodeIdle
  /\ InitAppIdle

SpecMenu == InitMenu /\ [][NextMenu]_vars

\* the slash menu of the klaudpad copy
InitMenuKlaudpad ==
  /\ InitNoteClient
  /\ InitCommandMenu("klaudpad")
  /\ InitAbbrevIdle
  /\ InitTagIdle
  /\ InitCodeIdle
  /\ InitAppIdle

SpecMenuKlaudpad == InitMenuKlaudpad /\ [][NextMenu]_vars

\* one press of the abbreviation trigger after a line was typed
InitAbbrev ==
  /\ InitNoteClient
  /\ InitCommandMenu("tulis")
  /\ InitAbbrevTyped
  /\ InitTagIdle
  /\ InitCodeIdle
  /\ InitAppIdle

SpecAbbrev == InitAbbrev /\ [][NextAbbrev]_vars

\* a chip is inserted from the slash menu
InitTagChipInsert ==
  /\ InitNoteClient
  /\ InitCommandMenu("tulis")
  /\ InitAbbrevIdle
  /\ InitTagInsert
  /\ InitCodeIdle
  /\ InitAppIdle

SpecTagInsert == InitTagChipInsert /\ [][NextTagInsert]_vars

\* a character is typed after a line that may hold a tag
InitTagChipRule ==
  /\ InitNoteClient
  /\ InitCommandMenu("tulis")
  /\ InitAbbrevIdle
  /\ InitTagRule
  /\ InitCodeIdle
  /\ InitAppIdle

SpecTagRule == InitTagChipRule /\ [][NextTagRule]_vars

\* a chip is serialised and parsed back
InitTagChipSerial ==
  /\ InitNoteClient
  /\ InitCommandMenu("tulis")
  /\ InitAbbrevIdle
  /\ InitTagSerial
  /\ InitCodeIdle
  /\ InitAppIdle

SpecTagSerial == InitTagChipSerial /\ [][NextTagSerial]_vars

\* a code block is shown and relabelled
InitCode ==
  /\ InitNoteClient
  /\ InitCommandMenu("tulis")
  /\ InitAbbrevIdle
  /\ InitTagIdle
  /\ InitCodeBlock(RelevanceTables)
  /\ InitAppIdle

SpecCode == InitCode /\ [][NextCode]_vars

\* a code block is formatted
InitFormat ==
  /\ InitNoteClient
  /\ InitCommandMenu("tulis")
  /\ InitAbbrevIdle
  /\ InitTagIdle
  /\ InitCodeBlock(FormatTables)
  /\ InitAppIdle

SpecFormat == InitFormat /\ [][NextFormat]_vars

\* ================================================================ claims

\* some snapshot of an existing document is handled in this step
SnapshotStep == \E c \in Contents, t \in Titles : OnSnapshot(c, t)

\* C1 (as claimed): once the open document is hydrated, a snapshot never
\* replaces the editor's content while the last local content edit has not
\* been written to the store.
C1_NoClobberOfUnsavedEdit ==
  [][(hasHydratedContent /\ unsavedContent # {} /\ SnapshotStep)
       => editorContent' = editorContent]_vars

\* C2: a snapshot handled after hydration while changeVersion > savedVersion
\* leaves the editor's content and selection as they were; this holds for
\* every such snapshot, so the content stays blocked until savedVersion has
\* caught up.  The NotePage variant of the guard blocks the same snapshots.
C2_PendingEditBlocksSnapshot ==
  [][(hasHydratedContent /\ changeVersion > savedVersion)
       => /\ SnapshotStep =>
               (editorContent' = editorContent /\ selection' = selection)
          /\ \A c \in Contents :
               ~AppliesRemoteContentPage(c, editorContent, hasHydratedContent,
                                         changeVersion, savedVersion)]_vars

\* C2 witness: after hydration the body was edited (version 1), then the
\* title was set to 1 (version 2); nothing has been saved, and the local
\* title is 0 again: a snapshot was handled after both edits, with
\* changeVersion > savedVersion, and the store's body differs from the
\* editor's.
C2_Witness ==
  /\ hasHydratedContent
  /\ changeVersion = 2
  /\ savedVersion = 0
  /\ \E e \in unsavedContent : e.version = 1
  /\ \E e \in unsavedTitle : e.version = 2 /\ e.payload = 1
  /\ title = 0
  /\ store[noteId].content # editorContent

\* C3 (as claimed): a snapshot handled when the document is hydrated and
\* changeVersion = savedVersion, whose content differs from the editor's,
\* leaves the editor holding the snapshot's content.
C3_SyncedSnapshotIsApplied ==
  [][\A c \in Contents, t \in Titles :
       (OnSnapshot(c, t) /\ hasHydratedContent
          /\ changeVersion = savedVersion /\ c # editorContent)
         => editorContent' = c]_vars

\* C4 (as claimed): savedVersion <= changeVersion in every reachable state.
C4_SavedAtMostChange == savedVersion <= changeVersion

\* C5 (as claimed): whenever syncStatus is 'synced', the last local content
\* edit and the last local title edit have both been written to the store.
C5_SyncedMeansPersisted ==
  syncStatus = "synced" => (unsavedContent = {} /\ unsavedTitle = {})

\* C6 (as claimed): after a switch of the open document no debounced save of
\* the previous document stays armed, and a write issued for another
\* document changes neither the counters nor the status of the open one,
\* nor its stored document.
C6_SwitchCancelsAndIsolates ==
  [][/\ \A t \in contentTimers' \cup titleTimers' : t.noteId = noteId'
     /\ \A w \in inflight :
          (w.noteId # noteId /\ (WriteSucceeds(w) \/ WriteFails(w)))
            => /\ UNCHANGED <<changeVersion, savedVersion, syncStatus>>
               /\ store'[noteId] = store[noteId]]_vars

\* C7 (as claimed): after the first snapshot of the open document the status
\* is 'synced' only if the counters are equal, and it is 'syncing' or
\* 'error' whenever they differ.
C7_StatusMatchesCounters ==
  hasHydratedContent =>
    /\ syncStatus = "synced" => changeVersion = savedVersion
    /\ changeVersion # savedVersion => syncStatus \in {"syncing", "error"}

\* C8: at most one debounced save is armed per field; an edit of a field
\* leaves exactly the timer of that edit armed, carrying the edit's payload
\* and the changeVersion returned by markDirty; a timer that fires issues a
\* write with its payload and version; timers are armed by edits only.
C8_OnePendingSavePerField ==
  [][/\ Cardinality(contentTimers') <= 1
     /\ Cardinality(titleTimers') <= 1
     /\ \A c \in Contents :
          EditorUpdate(c) =>
            /\ changeVersion' = changeVersion + 1
            /\ \A t \in contentTimers' :
                 /\ t.payload = c
                 /\ t.version = changeVersion'
                 /\ t.noteId = noteId
            /\ contentTimers' # {}
     /\ \A v \in Titles :
          TitleChange(v) =>
            /\ changeVersion' = changeVersion + 1
            /\ \A t \in titleTimers' :
                 /\ t.payload = v
                 /\ t.version = changeVersion'
                 /\ t.noteId = noteId
            /\ titleTimers' # {}
     /\ \A t \in contentTimers :
          ContentTimerFires(t) =>
            inflight' \ inflight \subseteq
              {[field |-> "content", noteId |-> t.noteId,
                payload |-> t.payload, version |-> t.version]}
     /\ \A t \in titleTimers :
          TitleTimerFires(t) =>
            inflight' \ inflight \subseteq
              {[field |-> "title", noteId |-> t.noteId,
                payload |-> t.payload, version |-> t.version]}
     /\ (contentTimers' \ contentTimers # {} \/ titleTimers' \ titleTimers # {})
          => changeVersion' = changeVersion + 1]_vars

\* C8 witness: two content edits were made, no content timer has fired and
\* no title was edited; the one armed timer is that of the second edit, the
\* timer of the first edit was canceled by it.
C8_Witness ==
  /\ switches = 0
  /\ changeVersion = 2
  /\ savedVersion = 0
  /\ lastSubmittedContent = {}
  /\ unsavedTitle = {}
  /\ titleTimers = {}
  /\ \E t \in contentTimers : t.version = 2 /\ contentTimers = {t}

\* C9: when a write tagged with version v succeeds, savedVersion becomes
\* max(savedVersion, v), so it is never lowered, and the status becomes
\* 'synced' if savedVersion >= changeVersion and 'syncing' otherwise.
C9_WriteSuccessRaisesSaved ==
  [][\A w \in inflight :
       WriteSucceeds(w) =>
         /\ savedVersion' >= savedVersion
         /\ savedVersion' >= w.version
         /\ savedVersion' \in {savedVersion, w.version}
         /\ syncStatus' = IF savedVersion' >= changeVersion'
                          THEN "synced" ELSE "syncing"]_vars

\* C9 witness: the write of version 2 has succeeded while the write of
\* version 1 is still in flight: it will complete with a lower version.
C9_Witness ==
  /\ savedVersion = 2
  /\ syncStatus = "synced"
  /\ \E w \in inflight : w.version = 1 /\ w.noteId = noteId
  /\ switches = 0

\* C10: a failed write sets the status to 'error' and keeps both counters;
\* it neither arms a timer nor issues a write: in every step a newly armed
\* timer belongs to a new local edit, and a newly issued write comes from an
\* armed timer that fires.
C10_FailureIsNotRetried ==
  [][/\ \A w \in inflight :
          WriteFails(w) =>
            /\ syncStatus' = "error"
            /\ UNCHANGED <<changeVersion, savedVersion>>
            /\ inflight' = inflight \ {w}
            /\ UNCHANGED <<contentTimers, titleTimers, store>>
     /\ (contentTimers' \ contentTimers # {} \/ titleTimers' \ titleTimers # {})
          => changeVersion' = changeVersion + 1
     /\ \A w \in inflight' \ inflight :
          \E t \in (contentTimers \ contentTimers') \cup
                   (titleTimers \ titleTimers') :
            /\ w.payload = t.payload
            /\ w.version = t.version
            /\ w.noteId = t.noteId]_vars

\* C10 witness: the only write has failed; nothing is armed or in flight
\* and the edit stays unsaved.
C10_Witness ==
  /\ syncStatus = "error"
  /\ changeVersion = 1
  /\ savedVersion = 0
  /\ inflight = {}
  /\ contentTimers = {}
  /\ titleTimers = {}
  /\ unsavedContent # {}

\* C11: a change of the open document sets changeVersion and savedVersion to
\* 0, the hydration flag to false and the last-submitted payload to null;
\* the flag stays false until a snapshot is handled, and the snapshot handled
\* while it is false is an initial hydration: the editor holds the
\* snapshot's content afterwards, whatever the counters and the
\* last-submitted payload are by then.
C11_SwitchResetsRefs ==
  [][/\ \A n \in Notes :
          RouteChange(n) =>
            /\ changeVersion' = 0
            /\ savedVersion' = 0
            /\ hasHydratedContent' = FALSE
            /\ lastSubmittedContent' = {}
     /\ (~hasHydratedContent /\ hasHydratedContent') => SnapshotStep
     /\ \A c \in Contents, t \in Titles :
          (OnSnapshot(c, t) /\ ~hasHydratedContent)
            => (editorContent' = c /\ hasHydratedContent')]_vars

\* C11 witness: note B is open after a switch and has not got its first
\* snapshot; both counters are 0 although the title write of an edit made
\* on note A had raised savedVersion before the switch.
C11_Witness ==
  /\ switches = 1
  /\ noteId = "B"
  /\ ~hasHydratedContent
  /\ changeVersion = 0
  /\ savedVersion = 0
  /\ lastSubmittedContent = {}
  /\ edits > 0
  /\ store["A"].title = 1
  /\ inflight = {}

\* C12: a snapshot of a document that does not exist, and a subscription
\* error with code permission-denied or not-found, start the recovery
\* redirect (recoveringNoteRef is set) and change nothing of the editor
\* content, the selection, the hydration flag, the version counters, the
\* status, and the title and the other fields a snapshot sets.
C12_MissingDocumentRedirects ==
  [][(OnSnapshotMissing
        \/ \E code \in {"permission-denied", "not-found"} :
             OnSnapshotError(code))
       => /\ recovering'
          /\ UNCHANGED <<editorContent, selection, hasHydratedContent,
                         changeVersion, savedVersion, lastSubmittedContent,
                         title, isDeleted, sidebarMode, syncStatus, ready,
                         noteId>>]_vars

\* C12 witness: the open document was hydrated and edited, then it vanished
\* from the store; the snapshot reporting this has started the recovery
\* (the subscription itself has not failed).
C12_Witness ==
  /\ recovering
  /\ listening
  /\ noteId \in missing
  /\ hasHydratedContent
  /\ changeVersion = 1
  /\ savedVersion = 0
  /\ unsavedContent # {}

\* two characters are the same letter, whatever their case
SameLetter(a, b) ==
  a = b \/ \E i \in 1..26 : {a, b} = {UpperCase[i], LowerCase[i]}

\* q occurs in s as a substring, case ignored
ContainsIgnoringCase(s, q) ==
  \E i \in 0..(Len(s) - Len(q)) :
    \A j \in 1..Len(q) : SameLetter(s[i + j], q[j])

\* C13: while the menu is open its list holds exactly the items of the
\* static list whose title or one of whose aliases contains the query as a
\* case-insensitive substring, in the order of the static list; the empty
\* query gives the whole list.
C13_FilteredList ==
  suggestionActive =>
    LET list == StaticItems(variant) IN
    /\ \A i \in 1..Len(list) :
         (\E k \in 1..Len(items) : items[k] = i)
           <=> \/ ContainsIgnoringCase(list[i].title, query)
               \/ \E a \in 1..Len(list[i].aliases) :
                    ContainsIgnoringCase(list[i].aliases[a], query)
    /\ \A k \in 1..(Len(items) - 1) : items[k] < items[k + 1]
    /\ (query = <<>> => Len(items) = Len(list))

\* C13 witness: the query "Ta" (an upper-case letter in it) has narrowed
\* the list to some but not all items.
C13_Witness ==
  /\ suggestionActive
  /\ query = <<"T", "a">>
  /\ Len(items) > 0
  /\ Len(items) < Len(SlashItems)

\* C14 (as claimed): with a non-empty list the highlighted index is in
\* [0, length) and Enter commits the item at it; with an empty list
\* ArrowUp, ArrowDown and Enter are not handled and commit nothing.
C14_HighlightInRange ==
  [][/\ (suggestionActive /\ Len(items) > 0)
          => HighlightedIndex \in 0..(Len(items) - 1)
     /\ (suggestionActive /\ Len(items) > 0 /\ KeyDown("Enter"))
          => committed' = items[HighlightedIndex + 1]
     /\ \A key \in {"ArrowUp", "ArrowDown", "Enter"} :
          (suggestionActive /\ Len(items) = 0 /\ KeyDown(key))
            => (keyHandled' = FALSE /\ committed' = committed)]_vars

\* C15 (as claimed): with n > 0 items and highlighted index i, ArrowDown
\* moves the highlight to (i + 1) mod n and ArrowUp to (i - 1) mod n.
C15_ArrowsWrapAround ==
  [][(suggestionActive /\ Len(items) > 0) =>
       /\ KeyDown("ArrowDown")
            => HighlightedIndex' = (HighlightedIndex + 1) % Len(items)
       /\ KeyDown("ArrowUp")
            => HighlightedIndex' =
                 (HighlightedIndex + Len(items) - 1) % Len(items)]_vars

\* C16 (as claimed): Escape closes the menu without committing, and from
\* then until the trigger character opens the menu again no command is
\* run, whatever key follows.
C16_EscapeClosesWithoutCommit ==
  [][/\ (suggestionActive /\ KeyDown("Escape"))
          => (~popupVisible' /\ committed' = committed)
     /\ (escaped /\ escaped') => committed' = committed]_vars

\* the text from the start of the caret's line to the caret
TypedLine == textBetween(doc, LineStart(doc, cursor), cursor)

\* some pattern of apply matches the trimmed line
MatchesSomePattern(s) ==
  mTodo(s).ok \/ mUl(s).ok \/ mOl(s).ok \/ mH(s).ok \/ mHr(s)

\* sub occurs in d as a run of consecutive tokens
ContainsSeq(d, sub) ==
  \E i \in 0..(Len(d) - Len(sub)) : SubSeq(d, i + 1, i + Len(sub)) = sub

C18_MatchReplacesLine ==
  [][\A key \in TriggerKeys :
       (trigger(key) /\ MatchesSomePattern(trimEnd(trimStart(TypedLine))))
         => /\ abbrevKey' = "consumed"
            /\ ContainsSeq(doc', apply(TypedLine).node)
            /\ ~ContainsSeq(doc', trimEnd(trimStart(TypedLine)))]_vars

RECURSIVE Repeat(_, _)
\* n copies of unit, one after the other
Repeat(unit, n) == IF n = 0 THEN <<>> ELSE unit \o Repeat(unit, n - 1)

\* the list a list abbreviation stands for: n empty items (task items
\* unchecked)
ExpectedList(s) ==
  LET m == IF mTodo(s).ok THEN mTodo(s)
           ELSE IF mUl(s).ok THEN mUl(s) ELSE mOl(s)
      n == IF m.group = <<>> THEN 1 ELSE Number(m.group)
  IN IF mTodo(s).ok
     THEN <<"<taskList>">>
            \o Repeat(<<"<taskItem checked=false>", "<p>", "</p>",
                        "</taskItem>">>, n)
            \o <<"</taskList>">>
     ELSE <<IF mUl(s).ok THEN "<bulletList>" ELSE "<orderedList>">>
            \o Repeat(<<"<listItem>", "<p>", "</p>", "</listItem>">>, n)
            \o <<IF mUl(s).ok THEN "</bulletList>" ELSE "</orderedList>">>

\* C19 (as claimed): a line that is todo, todo>N, ul, ul>li, ul>li*N, ol,
\* ol>li or ol>li*N (any case, trimmed) is expanded to a task, bullet or
\* numbered list of exactly N empty items, 1 when the count is omitted, for
\* every count the pattern accepts; task items are unchecked.
C19_ListOfNItems ==
  [][\A key \in TriggerKeys :
       LET s == trimEnd(trimStart(TypedLine)) IN
       (trigger(key) /\ (mTodo(s).ok \/ mUl(s).ok \/ mOl(s).ok))
         => /\ abbrevKey' = "consumed"
            /\ ContainsSeq(doc', ExpectedList(s))
            /\ \A i \in 1..Len(doc') :
                 doc'[i] # "<taskItem checked=true>"]_vars

\* the line is h1..h6 in either case, then anything
IsHeadingLine(s) ==
  /\ Len(s) >= 2
  /\ s[1] \in {"h", "H"}
  /\ s[2] \in {"1", "2", "3", "4", "5", "6"}

\* the text after the level, without one "." right after it, trimmed
TrailingText(s) ==
  trimEnd(trimStart(IF Len(s) >= 3 /\ s[3] = "." THEN SubSeq(s, 4, Len(s))
                    ELSE SubSeq(s, 3, Len(s))))

C21_InsertSelectsChipText ==
  [][\A color \in TagChipColor, text \in InsertTexts :
       InsertTagChip(color, text) =>
         LET from == tagSel[1]
             to == tagSel[2]
             before == tagDoc[from] \notin ChipTags
                         /\ ~IsWhitespace(tagDoc[from])
             after == tagDoc[to + 1] \notin ChipTags
                        /\ IsWhitespace(tagDoc[to + 1])
             inserted == (IF before THEN <<" ">> ELSE <<>>)
                           \o ChipNode(color, text)
                           \o (IF after THEN <<>> ELSE <<" ">>)
         IN /\ Len(tagDoc') >= from + Len(inserted)
            /\ SubSeq(tagDoc', 1, from) = SubSeq(tagDoc, 1, from)
            /\ SubSeq(tagDoc', from + 1, from + Len(inserted)) = inserted
            /\ tagSel'[2] - tagSel'[1] = Len(text)
            /\ tagDoc'[tagSel'[1]] = ChipOpen(color)
            /\ SubSeq(tagDoc', tagSel'[1] + 1, tagSel'[2]) = text
            /\ tagDoc'[tagSel'[2] + 1] = ChipClose]_vars

\* C22 (as claimed): when the typed text completes
\* (start of line or white space)#word(white space), the text from the "#"
\* on is replaced by a blue chip whose text is the word; the white-space
\* character before the "#" stays where it was, whatever it is, and one
\* space follows the chip, outside of it.
C22_InputRuleMakesChip ==
  [][\A ch \in TypedChars :
       LET from == tagSel[1]
           m == RuleMatch(TextBeforeCaret(tagDoc, from) \o <<ch>>)
       IN (TypeText(ch) /\ m.ok) =>
            tagDoc' = SubSeq(tagDoc, 1, from - Len(m.word) - 1)
                        \o ChipNode("blue", m.word) \o <<" ">>
                        \o SubSeq(tagDoc, from + 1, Len(tagDoc))]_vars

\* C23 (as claimed): a chip that was serialised, as JSON or as HTML, and
\* parsed back has the color and the text it had before.
C23_ChipRoundTrip ==
  tagBack # <<>> => tagBack = <<tagChip>>

\* C24: detectCodeLanguageMeta tries the detectors in the order json, sql,
\* java and the first that matches decides, with strategy 'deterministic',
\* whatever the grammars score: a snippet that is valid JSON and starts with
\* { or [ is 'json', one that only the later heuristics match is 'sql' (as
\* SELECT * FROM users WHERE id = 1;) or else 'java', and only a snippet no
\* detector matches is ranked by relevance.
C24_DeterministicFirst ==
  LET snippet == trim(blockCode)
      json == /\ snippet # <<>>
              /\ snippet[1] \in {"{", "["}
              /\ JsonParses(snippet)
      sql == isLikelySqlSnippet(snippet)
      java == isLikelyJavaSnippet(snippet)
      expected == IF json THEN <<"j", "s", "o", "n">>
                  ELSE IF sql THEN <<"s", "q", "l">>
                  ELSE <<"j", "a", "v", "a">>
  IN /\ json \/ sql \/ java
          => /\ detectionMemo.strategy = "deterministic"
             /\ detectionMemo.language = expected
     /\ ~(json \/ sql \/ java) => detectionMemo.strategy = "relevance"
     /\ blockCode = <<"S", "E", "L", "E", "C", "T", " ", "*", " ", "F", "R",
                      "O", "M", " ", "u", "s", "e", "r", "s", " ", "W", "H",
                      "E", "R", "E", " ", "i", "d", " ", "=", " ", "1", ";">>
          => detectionMemo.language = <<"s", "q", "l">>

\* a JSON object that also carries a Java signature, under the highest
\* score of another grammar, was detected as json
C24_Witness ==
  /\ isLikelyJavaSnippet(blockCode)
  /\ JsonParses(trim(blockCode))
  /\ relevances[<<"j", "a", "v", "a", "s", "c", "r", "i", "p", "t">>]
       = MaxRelevance
  /\ detectionMemo.language = <<"j", "s", "o", "n">>
  /\ ~effectPending

\* C25: the detected language is null or a registered grammar, and for an
\* empty or whitespace-only snippet the detection is {language: null,
\* strategy: 'relevance', relevance: 0, secondRelevance: 0}.
C25_DetectedLanguageRegistered ==
  /\ detectionMemo.language
       \in {languageDefinitions[n] : n \in 1..Len(languageDefinitions)}
              \cup {<<>>}
  /\ trim(blockCode) = <<>>
       => detectionMemo = [language |-> <<>>, strategy |-> "relevance",
                           relevance |-> 0, secondRelevance |-> 0]

\* a whitespace-only block was detected as nothing, and its label was left
C25_Witness ==
  /\ blockCode # <<>>
  /\ trim(blockCode) = <<>>
  /\ detectionMemo.language = <<>>
  /\ blockLanguage # <<>>
  /\ ~effectPending

\* C26 as stated: with aggressive = false and a snippet shorter than 24
\* characters shouldAutoCorrectLanguage answers false for every detection.
C26_ShortSnippetNeverRelabels ==
  [][(RelabelEffect /\ ~relabelAggressiveRef /\ Len(trim(blockCode)) < 24)
       => relabel'.answer # "yes"]_vars

\* C26 amended: with aggressive = false and a snippet shorter than 24
\* characters the answer is false for every relevance-strategy detection;
\* a deterministic detection of a language other than the recognised
\* current one is answered true whatever the length.
C26_ShortGuardRelevanceOnly ==
  [][(/\ RelabelEffect
      /\ ~relabelAggressiveRef
      /\ Len(trim(blockCode)) < 24
      /\ languageFromNode # <<>>
      /\ detectionMemo.language # <<>>)
       => (relabel'.answer = "yes"
             <=> (/\ detectionMemo.strategy = "deterministic"
                  /\ detectionMemo.language # languageFromNode))]_vars

\* a short block that was not typed in was relabelled by a detector
C26_Witness ==
  /\ Len(trim(blockCode)) < 24
  /\ detectionMemo.strategy = "deterministic"
  /\ relabel = [aggressive |-> FALSE, answer |-> "yes"]
  /\ blockLanguage = detectionMemo.language

\* C27: for a relevance-strategy detection of a language other than the
\* recognised current one that passes the short-snippet guard, the answer
\* is true exactly when, in aggressive mode, relevance >= 2 and relevance -
\* currentRelevance >= 1, and in normal mode, relevance >= 4 and relevance -
\* max(secondRelevance, currentRelevance) >= 2; what normal mode authorizes,
\* aggressive mode authorizes too.
C27_RelevanceThresholds ==
  [][RelabelEffect =>
       LET rel == detectionMemo.relevance
           second == detectionMemo.secondRelevance
           current == highlight(relevances, languageFromNode)
       IN /\ (/\ detectionMemo.strategy = "relevance"
              /\ languageFromNode # <<>>
              /\ detectionMemo.language # <<>>
              /\ detectionMemo.language # languageFromNode
              /\ relabelAggressiveRef \/ Len(trim(blockCode)) >= 24)
               => (relabel'.answer = "yes"
                     <=> IF relabelAggressiveRef
                         THEN rel >= 2 /\ rel - current >= 1
                         ELSE rel >= 4 /\ rel - max(second, current) >= 2)
          /\ shouldAutoCorrectLanguage(languageFromNode, blockCode,
                                       detectionMemo, FALSE, relevances)
               => shouldAutoCorrectLanguage(languageFromNode, blockCode,
                                            detectionMemo, TRUE, relevances)
    ]_vars

\* a long block that was not typed in was relabelled by relevance
C27_Witness ==
  /\ detectionMemo.strategy = "relevance"
  /\ Len(trim(blockCode)) >= 24
  /\ relabel = [aggressive |-> FALSE, answer |-> "yes"]
  /\ blockLanguage = detectionMemo.language

\* C28: formatCodeSnippet returns a result for every source and preferred
\* language, also when the formatter throws; when the result's error is not
\* null the formatted text is the source, and the view leaves the block's
\* content as it was.
C28_FormatKeepsSourceOnError ==
  [][(/\ \E outcome \in FormatterOutcomes(blockCode) : FormatCode(outcome)
      /\ trim(blockCode) # <<>>)
       => /\ Len(formatResult') = 1
          /\ formatStatus' \in {"success", "error"}
          /\ formatResult'[1].error # "null"
               => /\ formatResult'[1].formatted = blockCode
                  /\ blockCode' = blockCode]_vars

\* the formatter threw on a block a parser is mapped for
C28_Witness ==
  /\ formatResult # <<>>
  /\ formatResult[1].parser # "null"
  /\ formatResult[1].error = "Unexpected token"
  /\ formatResult[1].formatted = blockCode
  /\ formatStatus = "error"

\* C29: a snapshot of an existing document sets the local title and the
\* deleted flag to the snapshot's values, also while a local edit is pending
\* and a title save is scheduled; it leaves the scheduled title saves armed,
\* and a scheduled title save that fires on a writable note submits the
\* payload it was scheduled with.
C29_SnapshotSetsTitle ==
  [][/\ \A c \in Contents, t \in Titles :
          OnSnapshot(c, t)
            => /\ title' = t
               /\ isDeleted' = store[noteId].deleted
               /\ titleTimers' = titleTimers
               /\ titleSaveTimeoutRef' = titleSaveTimeoutRef
     /\ \A tm \in titleTimers :
          (TitleTimerFires(tm) /\ ~tm.readOnly)
            => inflight' = inflight \cup
                 {[field |-> "title", noteId |-> tm.noteId,
                   payload |-> tm.payload, version |-> tm.version]}]_vars

\* a snapshot replaced the title of a pending local title edit whose save
\* is still scheduled
C29_Witness ==
  /\ hasHydratedContent
  /\ changeVersion > savedVersion
  /\ \E tm \in titleTimers :
       tm.held /\ tm.noteId = noteId /\ tm.payload # title

\* C30: when a snapshot's content is applied while the editor has focus, the
\* restored selection is the previous one with both bounds clamped into
\* 1..size of the new document, so 1 <= from <= to <= size, also when the
\* new document is shorter than the previous selection or is empty.
C30_RestoredSelectionInBounds ==
  [][\A c \in RestoreContents, t \in Titles :
       (OnSnapshot(c, t) /\ editorContent' # editorContent /\ isFocused)
         => /\ 1 <= selection'[1]
            /\ selection'[1] <= selection'[2]
            /\ selection'[2] <= 2 + c
            /\ \A k \in {1, 2} :
                 selection'[k] = IF selection[k] > 2 + c THEN 2 + c
                                 ELSE IF selection[k] < 1 THEN 1
                                 ELSE selection[k]]_vars

\* the empty document was applied under a selection that lay beyond it
C30_Witness ==
  /\ isFocused
  /\ editorContent = 0
  /\ selection = <<2, 2>>
  /\ store[noteId].content = 0


\* ------------------------------------------------ ensuring the user's note
NextEnsure ==
  \/ \E c \in Callers, excludeNoteId \in ExcludeOptions, preferredNoteId \in PreferredOptions :
       ensureUserHasNote(c, excludeNoteId, preferredNoteId)
  \/ \E c \in Callers : ExistingInFlightSettles(c)
  \/ \E c \in Callers, threw \in BOOLEAN : PreferredChecked(c, threw)
  \/ \E c \in Callers, threw \in BOOLEAN : LatestFound(c, threw)
  \/ \E c \in Callers : createEmptyNoteForUser(c)
  \/ \E c \in Callers : CreateFails(c)
  \/ \E c \in Callers : EnsureReturns(c)

InitEnsureService ==
  /\ InitNoteClient
  /\ InitCommandMenu("tulis")
  /\ InitAbbrevIdle
  /\ InitTagIdle
  /\ InitCodeIdle
  /\ InitEnsure
  /\ InitClearIdle
  /\ InitTrashIdle

SpecEnsure == InitEnsureService /\ [][NextEnsure]_vars

\* the user has a note the call may be answered with
HasAccessibleNote(notes, uid, excludeNoteId) ==
  \E i \in 1..Len(notes) :
    /\ notes[i].ownerUid = uid
    /\ notes[i].isDeleted # TRUE
    /\ notes[i].id # excludeNoteId

CreatedBy(c) == ensurePromise[c].state = "fulfilled" /\ ensurePromise[c].created

\* C34: of ensureUserHasNote calls for one user that overlap in time, at most
\* one creates a new empty note, whatever their options; two callers that
\* waited on the same request and both turned its result down as excluded
\* do not each create a note.
C34_OverlappingCallsCreateOnce ==
  \A c \in Callers, d \in Callers :
    (c # d /\ {c, d} \in overlapping) => ~(CreatedBy(c) /\ CreatedBy(d))

\* C35: a call creates a note only when the user has no note that is theirs,
\* not in trash and not the excluded one; a result that names an existing
\* note names one the user can access and has created = false.
C35_CreatesOnlyWithoutAccessibleNote ==
  [][\A c \in Callers :
       (ensurePromise[c].state = "pending" /\ ensurePromise'[c].state = "fulfilled")
         => IF ensurePromise'[c].created
              THEN ~HasAccessibleNote(notesCollection, userId, ensureCalls[c].excludeNoteId)
              ELSE /\ isUserAccessibleNoteId(notesCollection, userId, ensurePromise'[c].noteId)
                   /\ ensurePromise'[c].noteId # ensureCalls[c].excludeNoteId]_vars

\* C36: the note id a call resolves with is never the call's excludeNoteId,
\* be it the result of the call's own request or of the request it waited
\* for; and when every call made has resolved or rejected, the in-flight
\* map has no entry for the user.
C36_NeverExcludedAndMapCleared ==
  /\ \A c \in Callers :
       ensureCalls[c].pc = "resolved"
         => EnsureResult(c).noteId # ensureCalls[c].excludeNoteId
  /\ (\A c \in Callers : ~Active(c)) => ensureInFlight = "null"

\* all three calls were made and have settled; one of them excluded the note
\* another call's request resolved with, overlapped it, and resolved from
\* its own request
C36_Witness ==
  /\ \A c \in Callers : ensureCalls[c].pc \in {"resolved", "rejected"}
  /\ \E c \in Callers, d \in Callers :
       /\ {c, d} \in overlapping
       /\ c # d
       /\ ensurePromise[d].state = "fulfilled"
       /\ ensurePromise[d].noteId = ensureCalls[c].excludeNoteId
       /\ ensureCalls[c].pc = "resolved"
       /\ ensureCalls[c].awaits = "null"

\* ------------------------------------------------ clearing completed tasks
NextClear ==
  \/ OnSnapshot(store[noteId].content, store[noteId].title)
  \/ ToggleHeaderActionsMenu
  \/ clearCompletedTasks
  \/ \E t \in contentTimers : ContentTimerFires(t)
  \/ \E w \in inflight : WriteSucceeds(w)

InitClearTasks ==
  /\ InitNoteClient
  /\ InitCommandMenu("tulis")
  /\ InitAbbrevIdle
  /\ InitTagIdle
  /\ InitCodeIdle
  /\ InitEnsureIdle
  /\ InitClear
  /\ InitTrashIdle

SpecClear == InitClearTasks /\ [][NextClear]_vars

IsCheckedItem(node) == node.type = "taskItem" /\ node.checked = TRUE
Attributes(nodes) == [i \in 1..Len(nodes) |-> [type |-> nodes[i].type, checked |-> nodes[i].checked, label |-> nodes[i].label]]

\* the nodes of a tree, parents before children, in document order
RECURSIVE Preorder(_)
Preorder(node) ==
  <<node>> \o Flatten([i \in 1..Len(node.content) |-> Preorder(node.content[i])])

\* the same without the checked task items and what they hold
RECURSIVE OutsideChecked(_)
OutsideChecked(node) ==
  IF IsCheckedItem(node) THEN <<>>
  ELSE <<node>> \o Flatten([i \in 1..Len(node.content) |-> OutsideChecked(node.content[i])])

UncheckedItems(json) ==
  Attributes(SelectSeq(Preorder(json), LAMBDA n : n.type = "taskItem" /\ ~n.checked))
NonTaskNodes(json) ==
  Attributes(SelectSeq(OutsideChecked(json), LAMBDA n : n.type \notin {"taskItem", "taskList"}))
HasChecked(json) == \E i \in 1..Len(Preorder(json)) : IsCheckedItem(Preorder(json)[i])
HasEmptyTaskList(json) ==
  \E i \in 1..Len(Preorder(json)) :
    Preorder(json)[i].type = "taskList" /\ Preorder(json)[i].content = <<>>

\* C37: the document stripCompletedTasksFromDoc returns has no checked task
\* item at any depth and no task list without items; every unchecked task
\* item and every non-task node outside the checked items is kept with its
\* attributes, in the original order; when nothing is checked the result is
\* the same document with removedCount 0; stripping twice gives what
\* stripping once gives.
C37_StripKeepsAllButChecked ==
  \E stripped \in {stripCompletedTasksFromDoc(taskDoc)} :
    /\ ~HasChecked(stripped.doc)
    /\ ~HasEmptyTaskList(stripped.doc)
    /\ UncheckedItems(stripped.doc) = UncheckedItems(taskDoc)
    /\ NonTaskNodes(stripped.doc) = NonTaskNodes(taskDoc)
    /\ ~HasChecked(taskDoc) => (stripped.removedCount = 0 /\ stripped.doc = taskDoc)
    /\ stripped.removedCount = 0 => stripped.doc = taskDoc
    /\ stripCompletedTasksFromDoc(stripped.doc).doc = stripped.doc

\* the parts of C37 the code keeps: all of the above but the unchecked items
\* below a checked one
C37_StripOutsideChecked ==
  \E stripped \in {stripCompletedTasksFromDoc(taskDoc)} :
    /\ ~HasChecked(stripped.doc)
    /\ ~HasEmptyTaskList(stripped.doc)
    /\ Attributes(OutsideChecked(stripped.doc))
         = Attributes(SelectSeq(OutsideChecked(taskDoc), LAMBDA n : n.type # "taskList"
                  \/ \E i \in 1..Len(n.content) : ~IsCheckedItem(n.content[i])))
    /\ ~HasChecked(taskDoc) => (stripped.removedCount = 0 /\ stripped.doc = taskDoc)
    /\ stripped.removedCount = 0 => stripped.doc = taskDoc
    /\ stripCompletedTasksFromDoc(stripped.doc).doc = stripped.doc

\* clearCompletedTasks with nothing to remove changes neither the document
\* nor changeVersion
C37_ClearWithoutCheckedIsNoOp ==
  [][(/\ isHeaderActionsMenuOpen
      /\ ~isHeaderActionsMenuOpen'
      /\ stripCompletedTasksFromDoc(taskDoc).removedCount = 0)
       => /\ taskDoc' = taskDoc
          /\ editorContent' = editorContent
          /\ changeVersion' = changeVersion]_vars

\* ---------------------------------------------------------- trash cleanup
NextCleanup ==
  \/ \E n \in TrashNoteIds : restoreNoteFromTrash(n)
  \/ \E n \in TrashNoteIds : moveNoteToTrash(n)
  \/ \E i \in Invocations : cleanupExpiredTrashNotes(i)
  \/ \E i \in Invocations : CleanupReads(i)
  \/ \E i \in Invocations : BatchCommits(i)
  \/ \E i \in Invocations : CleanupFails(i)

InitCleanup ==
  /\ InitNoteClient
  /\ InitCommandMenu("tulis")
  /\ InitAbbrevIdle
  /\ InitTagIdle
  /\ InitCodeIdle
  /\ InitEnsureIdle
  /\ InitClearIdle
  /\ InitTrash

SpecCleanup == InitCleanup /\ [][NextCleanup]_vars

\* C38: the cleanup removes a note only if, when it is removed, the note is
\* in trash with a deletedAt at least the retention period in the past (so a
\* note restored between the cleanup's read and its commit stays), and at
\* most one cleanup runs at a time.
C38_CleanupDeletesOnlyExpired ==
  [][/\ \A n \in TrashNoteIds :
          (trashDocs[n].exists /\ ~trashDocs'[n].exists)
            => IsExpired(trashDocs[n], now - retentionDays)
     /\ Cardinality({i \in Invocations : cleanups'[i].pc # "idle"}) <= 1]_vars

\* ------------------------------------------------------------ plain text
\* no deterministic detector matched the block's non-empty text and every
\* grammar scored 0 on it
IsPlainText ==
  /\ trim(blockCode) # <<>>
  /\ detectionMemo.strategy = "relevance"
  /\ \A l \in ScoringLanguages : relevances[l] = 0

\* C39: for a non-empty snippet no deterministic detector matches and every
\* grammar scores 0 on, the detection gives language null, and the auto-label
\* effect does not label the block with the first registered grammar.
C39_PlainTextIsNotLabelled ==
  IsPlainText
    => /\ detectionMemo.language = Null
       /\ blockLanguage # languageDefinitions[1]

\* ------------------------------------------------------------ convergence

\* the protocol when every issued write succeeds, with another client
\* editing the body of the open note
NextConverge ==
  \/ \E c \in Contents : EditorUpdate(c)
  \/ \E value \in Titles : TitleChange(value)
  \/ \E t \in contentTimers : ContentTimerFires(t)
  \/ \E t \in titleTimers : TitleTimerFires(t)
  \/ \E w \in inflight : WriteSucceeds(w)
  \/ \E c \in Contents, t \in Titles : OnSnapshot(c, t)
  \/ \E c \in Contents :
       RemoteWrite(noteId, c, store[noteId].title, store[noteId].deleted)

\* an armed timer fires, an issued write resolves, and the store delivers a
\* snapshot of what it holds
SpecConverge ==
  /\ Init
  /\ [][NextConverge]_vars
  /\ WF_vars(\E t \in contentTimers : ContentTimerFires(t))
  /\ WF_vars(\E t \in titleTimers : TitleTimerFires(t))
  /\ WF_vars(\E w \in inflight : WriteSucceeds(w))
  /\ WF_vars(OnSnapshot(store[noteId].content, store[noteId].title))

\* C31: if local edits stop, every issued write succeeds and the store then
\* delivers a snapshot of its final content, then eventually changeVersion
\* equals savedVersion, the status is 'synced' and the editor holds the
\* content of the store, for good.
C31_Convergence ==
  <>[][~(\E c \in Contents :
           RemoteWrite(noteId, c, store[noteId].title,
                       store[noteId].deleted))]_vars
    => <>[](/\ changeVersion = savedVersion
            /\ syncStatus = "synced"
            /\ editorContent = store[noteId].content)

\* C32: a pending debounced content save goes away only by a newer content
\* edit, by a switch of the open document, or by firing and issuing the
\* write of its payload; in particular not when the note becomes read-only.
C32_PendingSaveFiresUnlessSuperseded ==
  [][\A t \in contentTimers :
       (~\E x \in contentTimers' :
            /\ x.noteId = t.noteId
            /\ x.payload = t.payload
            /\ x.version = t.version)
         => \/ \E c \in Contents : EditorUpdate(c)
            \/ noteId' # noteId
            \/ Write("content", t) \in inflight' \ inflight]_vars

\* C33: while the note is read-only (isDeleted is set or the sidebar shows
\* the trash) no step raises changeVersion, arms a save timer or issues a
\* write for the note.
C33_ReadOnlyIssuesNothing ==
  [][isReadOnly
       => /\ changeVersion' = changeVersion
          /\ contentTimers' \subseteq contentTimers
          /\ titleTimers' \subseteq titleTimers
          /\ inflight' \subseteq inflight]_vars

====
